---- MODULE Spec2Model ----
(***************************************************************************)
(* DocFlow documentation aggregator: src/src/generators/aggregate.js and   *)
(* the command that drives it, src/src/cli/commands/aggregate.js.          *)
(*                                                                         *)
(* Strings are sequences of tokens.  A token is either one non-alphanumeric*)
(* character ("/", ".", "-", "#", ":", " ") or a maximal run of            *)
(* alphanumeric characters ("svc", "md").  Every concatenation the code    *)
(* makes has a non-alphanumeric character at the joint, so the token       *)
(* sequence of a result is again the tokenisation of the string it stands  *)
(* for, and equality of token sequences is equality of strings.            *)
(***************************************************************************)
EXTENDS Integers, Sequences, FiniteSets, TLC

(***************************************************************************)
(* Bounds of the model.                                                    *)
(***************************************************************************)
MaxRepos == 2
MaxDay == 1

(***************************************************************************)
(* The state of a run of the aggregate command (aggregateCommand.action).  *)
(***************************************************************************)
VARIABLES
  cfg,       \* the options and configuration of the run: given, repos, sections, clone, clean
  fs,        \* the directory the repositories are read from: directory name -> tree or Missing
  out,       \* the output directory: [exists, files], files a set of [path, content]
  today,     \* the day of the clock
  pc,        \* the statement the command is at
  error,     \* what the catch of line 172 caught: "none", "config", "clone" or "write"
  cloned,    \* cloneRepos: the number of repositories the loop has passed
  tried,     \* the extraction loop: the number of repositories it has passed
  allDocs,   \* allDocs of the command
  warnings,  \* the repositories a warning was printed for
  merged,    \* what mergeDocumentation returned (its documents are shared with linked)
  linked,    \* what linkCrossReferences returned
  unlinked,  \* the value of merged when linkCrossReferences was called
  index,     \* the index text
  written,   \* the number of documents written
  rerun,     \* the pipeline is run a second time on the same allDocs
  prev       \* linked and index of the first run

vars == <<cfg, fs, out, today, pc, error, cloned, tried, allDocs, warnings, merged, linked,
          unlinked, index, written, rerun, prev>>

(***************************************************************************)
(* String primitives.                                                      *)
(***************************************************************************)
Specials == {"/", ".", "-", "#", ":", " ", "_", ">", "[", "]", "(", ")", ",", "*"}

IsAlnum(tok) == tok \notin Specials

RECURSIVE Flatten(_)
Flatten(ss) == IF ss = <<>> THEN <<>> ELSE Head(ss) \o Flatten(Tail(ss))

RECURSIVE SplitFrom(_, _, _)
\* String.prototype.split(c): the pieces of s between the occurrences of c.
SplitFrom(s, c, cur) ==
  IF s = <<>> THEN <<cur>>
  ELSE IF Head(s) = c THEN <<cur>> \o SplitFrom(Tail(s), c, <<>>)
  ELSE SplitFrom(Tail(s), c, Append(cur, Head(s)))

Split(s, c) == SplitFrom(s, c, <<>>)

Pop(parts) == parts[Len(parts)]

Includes(s, c) == \E k \in 1..Len(s) : s[k] = c

StartsWith(s, p) == Len(s) >= Len(p) /\ SubSeq(s, 1, Len(p)) = p

\* path.join(a, b) for two relative, already normalised paths
Join(a, b) == a \o <<"/">> \o b

\* path.basename(p) for a path without a trailing separator
Basename(p) == Pop(Split(p, "/"))

\* replace(/[^a-zA-Z0-9]/g, '-')
Sanitize(name) == [k \in 1..Len(name) |-> IF IsAlnum(name[k]) THEN name[k] ELSE "-"]

\* repo.split('/').pop()
RepoNameOf(repo) == Pop(Split(repo, "/"))


(***************************************************************************)
(* Document content: a sequence of lines (the text is the lines joined     *)
(* with "\n").  A line is a record [k, s]: its kind and its tokens.        *)
(*   h1    "# " s            h2    "## " s          rule  "---"            *)
(*   h3    "### " s                                                        *)
(*   blank ""                kv    key ": " value   text  s                *)
(*   link  "[" text "](" url ")"  with s = <<text, url>> kept apart        *)
(*   note  the fixed note line of a merged document                        *)
(* A link line holds exactly one markdown link and nothing else.           *)
(***************************************************************************)
H1(t) == [k |-> "h1", s |-> <<t>>]
H2(t) == [k |-> "h2", s |-> <<t>>]
H3(t) == [k |-> "h3", s |-> <<t>>]
Rule == [k |-> "rule", s |-> <<>>]
Blank == [k |-> "blank", s |-> <<>>]
NoteLine == [k |-> "note", s |-> <<>>]
Kv(key, val) == [k |-> "kv", s |-> <<<<key>>, val>>]
\* a frontmatter line whose key is written as two pieces, as in 'up' 'date'
Kv2(pre, key, val) == [k |-> "kv", s |-> <<<<pre, key>>, val>>]
Text(t) == [k |-> "text", s |-> <<t>>]
Link(text, url) == [k |-> "link", s |-> <<text, url>>]

\* The characters of a line, as the regular expressions of the code see them.
LineText(ln) ==
  CASE ln.k = "h1" -> <<"#", " ">> \o ln.s[1]
    [] ln.k = "h2" -> <<"#", "#", " ">> \o ln.s[1]
    [] ln.k = "h3" -> <<"#", "#", "#", " ">> \o ln.s[1]
    [] ln.k = "rule" -> <<"-", "-", "-">>
    [] ln.k = "blank" -> <<>>
    [] ln.k = "note" -> <<">", " ", "*", "*", "Note", "*", "*", ":", " ", "aggregated">>
    [] ln.k = "kv" -> ln.s[1] \o <<":", " ">> \o ln.s[2]
    [] ln.k = "text" -> ln.s[1]
    [] ln.k = "link" -> <<"[">> \o ln.s[1] \o <<"]", "(">> \o ln.s[2] \o <<")">>

\* String.prototype.trim() on a token string
RECURSIVE TrimLeft(_)
TrimLeft(s) == IF s # <<>> /\ Head(s) = " " THEN TrimLeft(Tail(s)) ELSE s

RECURSIVE TrimRight(_)
TrimRight(s) ==
  IF s # <<>> /\ s[Len(s)] = " " THEN TrimRight(SubSeq(s, 1, Len(s) - 1)) ELSE s

Trim(s) == TrimRight(TrimLeft(s))

\* null of a metadata field, '' of the title, undefined of an absent property
Null == <<"null">>
Undefined == <<"undefined">>

\* index of the first line of `content` at or after `from` that satisfies P, 0 if none
FirstLine(content, from, P(_)) ==
  LET hits == {j \in from..Len(content) : P(content[j])}
  IN IF hits = {} THEN 0 ELSE CHOOSE j \in hits : \A m \in hits : j <= m

IsH1(ln) == ln.k = "h1"
IsRule(ln) == ln.k = "rule"
IsNotBlank(ln) == ln.k # "blank"

\* content.match(/^---\n([\s\S]+?)\n---/): the lines of the frontmatter block,
\* which is there only when the text starts with a "---" line
Frontmatter(content) ==
  IF Len(content) >= 3 /\ content[1].k = "rule"
  THEN LET j == FirstLine(content, 3, IsRule)
       IN IF j = 0 THEN <<>> ELSE SubSeq(content, 2, j - 1)
  ELSE <<>>

\* the positions of 'key:' in the text of a line
KeyAt(t, key) == {p \in 1..(Len(t) - 1) : t[p] = key /\ t[p + 1] = ":"}

\* frontmatter.match(/key:\s*(.+)/i)[1].trim(), Null without a match.  The
\* expression is not anchored: it matches the first 'key:' of the block wherever
\* it stands in a line, \s* runs over line ends, and (.+) is the rest of the line
\* the match has come to.
FrontValue(fm, key) ==
  LET HasKey(ln) == KeyAt(LineText(ln), key) # {}
      j == FirstLine(fm, 1, HasKey)
  IN IF j = 0 THEN Null
     ELSE LET t == LineText(fm[j])
              p == CHOOSE q \in KeyAt(t, key) : \A r \in KeyAt(t, key) : q <= r
              rest == SubSeq(t, p + 2, Len(t))
              v == FirstLine(fm, j + 1, IsNotBlank)
          IN IF TrimLeft(rest) # <<>> THEN Trim(rest)
             ELSE IF v # 0 THEN Trim(LineText(fm[v]))
             ELSE IF rest # <<>> THEN <<>>
             ELSE Null

\* content.match(/##\s*Heading\s*\n\s*(.+)/i)[1].trim(): the text of the first
\* non-blank line after the heading, whatever that line is
AdrValue(content, heading) ==
  LET IsHeading(ln) == ln.k = "h2" /\ ln.s[1] = <<heading>>
      j == FirstLine(content, 1, IsHeading)
      v == IF j = 0 THEN 0 ELSE FirstLine(content, j + 1, IsNotBlank)
  IN IF v = 0 THEN Null ELSE Trim(LineText(content[v]))

\* tagsMatch[1].split(',').map(t => t.trim().replace(/['"]/g, ''))
TagsOf(fm) ==
  LET v == FrontValue(fm, "tags")
  IN IF v = Null \/ Len(v) < 3 \/ v[1] # "[" \/ ~Includes(v, "]") THEN <<>>
     ELSE LET inner == Split(SubSeq(v, 2, Len(v)), "]")[1]
              parts == Split(inner, ",")
          IN IF inner = <<>> THEN <<>>
             ELSE [n \in 1..Len(parts) |-> Trim(parts[n])]

extractMetadata(content) ==
  LET t == FirstLine(content, 1, IsH1)
      fm == Frontmatter(content)
      adrStatus == AdrValue(content, "Status")
      adrDate == AdrValue(content, "Date")
  IN [title |-> IF t = 0 THEN <<>> ELSE Trim(content[t].s[1]),
      date |-> IF adrDate # Null THEN adrDate ELSE FrontValue(fm, "date"),
      author |-> FrontValue(fm, "author"),
      tags |-> TagsOf(fm),
      status |-> IF adrStatus # Null THEN adrStatus ELSE FrontValue(fm, "status")]


(***************************************************************************)
(* Extraction: extractDocs / extractSection.                               *)
(* A repository tree is the sequence of its markdown files, in the order   *)
(* glob returns them; a file is [dir, name, content] with dir relative to  *)
(* the repository root.                                                    *)
(***************************************************************************)
Dir1(a) == <<a>>
Dir2(a, b) == <<a, "/", b>>
Dir3(a, b, c) == <<a, "/", b, "/", c>>

\* sectionPaths of extractSection
sectionPaths(section) ==
  CASE section = "adr" -> <<Dir3("docs", "architecture", "adr"), Dir2("docs", "adr"), Dir1("adr"),
                            <<".", "design", "/", "adr">>>>
    [] section = "api" -> <<Dir2("docs", "api"), Dir1("api"), Dir2("docs", "endpoints")>>
    [] section = "runbooks" -> <<Dir2("docs", "runbooks"), Dir1("runbooks"), Dir2("docs", "operations")>>
    [] section = "features" -> <<Dir2("docs", "features"), Dir1("features"), Dir2("docs", "requirements")>>
    [] section = "architecture" -> <<Dir2("docs", "architecture"), Dir1("architecture"),
                                     Dir2("docs", "design"), <<".", "design">>>>
    [] section = "database" -> <<Dir2("docs", "database"), Dir1("database"), Dir2("docs", "schema")>>
    [] section = "security" -> <<Dir2("docs", "security"), Dir1("security")>>
    [] section = "deployment" -> <<Dir2("docs", "deployment"), Dir1("deployment"), Dir2("docs", "deploy")>>
    [] OTHER -> <<Dir2("docs", section), Dir1(section)>>

\* the default of extractDocs when options.sections is not given
DefaultSections == <<"adr", "api", "runbooks", "features", "architecture">>

\* a file of directory dir is matched by join(fullPath, '**/*.md')
Under(dir, pathPattern) == dir = pathPattern \/ StartsWith(dir, pathPattern \o <<"/">>)

\* path.relative(fullPath, file)
Relative(pathPattern, file) ==
  IF file.dir = pathPattern THEN file.name
  ELSE SubSeq(file.dir, Len(pathPattern) + 2, Len(file.dir)) \o <<"/">> \o file.name

\* the documents pushed for one candidate path of extractSection
PathDocs(repoDir, tree, section, pathPattern) ==
  LET In(file) == Under(file.dir, pathPattern)
      files == SelectSeq(tree, In)
  IN [n \in 1..Len(files) |->
        [filename |-> files[n].name,
         relativePath |-> Relative(pathPattern, files[n]),
         absolutePath |-> Join(Join(repoDir, files[n].dir), files[n].name),
         content |-> files[n].content,
         section |-> section,
         metadata |-> extractMetadata(files[n].content),
         sourceRepo |-> Undefined,
         sourceRepoName |-> Undefined,
         sourceRepos |-> <<>>,
         conflictResolution |-> "none"]]

extractSection(repoDir, tree, section) ==
  LET paths == sectionPaths(section)
  IN Flatten([n \in 1..Len(paths) |-> PathDocs(repoDir, tree, section, paths[n])])

\* extractDocs for an existing repoDir: the object {section: documents}, as
\* the sequence of its entries in insertion order.  `sections` is
\* options.sections || DefaultSections: an empty array is truthy and is kept.
extractDocs(repoDir, tree, sections) ==
  LET all == [n \in 1..Len(sections) |->
                [section |-> sections[n],
                 documents |-> extractSection(repoDir, tree, sections[n])]]
      NonEmpty(e) == Len(e.documents) > 0
  IN SelectSeq(all, NonEmpty)


(***************************************************************************)
(* Merge: mergeDocumentation / resolveConflicts / mergeDocumentContent.    *)
(* An object {section: documents} is the sequence of its entries in        *)
(* insertion order, which is the order Object.keys and Object.entries      *)
(* give for names that are not integers.                                   *)
(***************************************************************************)
Keys(obj) == [n \in 1..Len(obj) |-> obj[n].section]

Has(obj, section) == \E n \in 1..Len(obj) : obj[n].section = section

Get(obj, section) ==
  (CHOOSE e \in {obj[n] : n \in 1..Len(obj)} : e.section = section).documents

\* a faulty variant: the documents are pushed to the first list of the collection
PushAllToFirst(obj, section, docs) ==
  IF obj = <<>> THEN <<[section |-> section, documents |-> docs]>>
  ELSE [n \in 1..Len(obj) |->
          IF n = 1
          THEN [section |-> obj[1].section, documents |-> obj[1].documents \o docs]
          ELSE obj[n]]

\* merged[section] = merged[section] || []; merged[section].push(...docs)
PushAll(obj, section, docs) ==
  IF Has(obj, section)
  THEN [n \in 1..Len(obj) |->
          IF obj[n].section = section
          THEN [section |-> section, documents |-> obj[n].documents \o docs]
          ELSE obj[n]]
  ELSE Append(obj, [section |-> section, documents |-> docs])

\* { ...doc, sourceRepo: repo, sourceRepoName: repoName }
Tagged(doc, repo, repoName) ==
  [doc EXCEPT !.sourceRepo = repo, !.sourceRepoName = repoName]

\* the inner loop of mergeDocumentation over Object.entries(docs) of one repository
RECURSIVE GroupRepo(_, _, _, _)
GroupRepo(coll, entry, docs, sections) ==
  IF docs = <<>> THEN coll
  ELSE LET e == Head(docs)
           skip == Len(sections) > 0 /\ ~Includes(sections, e.section)
           tagged == [n \in 1..Len(e.documents) |->
                        Tagged(e.documents[n], entry.repo, entry.repoName)]
       IN GroupRepo(IF skip THEN coll ELSE PushAll(coll, e.section, tagged),
                    entry, Tail(docs), sections)

\* the outer loop of mergeDocumentation: group documents by section
RECURSIVE GroupBySection(_, _, _)
GroupBySection(coll, extractions, sections) ==
  IF extractions = <<>> THEN coll
  ELSE GroupBySection(GroupRepo(coll, Head(extractions), Head(extractions).docs, sections),
                      Tail(extractions), sections)

\* the keys of fileGroups: the file names of `documents`, each once, in order of
\* first appearance
RECURSIVE FileKeys(_, _)
FileKeys(documents, seen) ==
  IF documents = <<>> THEN seen
  ELSE FileKeys(Tail(documents),
                IF Includes(seen, Head(documents).filename) THEN seen
                ELSE Append(seen, Head(documents).filename))

FileGroup(documents, filename) ==
  LET Same(d) == d.filename = filename
  IN SelectSeq(documents, Same)

\* filename.replace('.md', ''): the first ".md" of the name removed
RECURSIVE StripMd(_)
StripMd(name) ==
  IF Len(name) < 2 THEN name
  ELSE IF name[1] = "." /\ name[2] = "md" THEN SubSeq(name, 3, Len(name))
  ELSE <<Head(name)>> \o StripMd(Tail(name))

\* content.replace(/^#\s+.+\n/, ''): a first line "# ..." goes when a line follows it
StripFirstHeading(content) ==
  IF Len(content) >= 2 /\ content[1].k = "h1" THEN Tail(content) ELSE content

FromHeading(doc) == H2(<<"From", " ">> \o doc.sourceRepoName)

\* a faulty variant: the separator is pushed after the last document too
MergedBlockAlways(docs, i) ==
  <<FromHeading(docs[i]), Blank>> \o StripFirstHeading(docs[i].content) \o <<Blank>>
  \o <<Rule, Blank>>

\* the lines mergeDocumentContent pushes for docs[i]
MergedBlock(docs, i) ==
  <<FromHeading(docs[i]), Blank>> \o StripFirstHeading(docs[i].content) \o <<Blank>>
  \o (IF i < Len(docs) THEN <<Rule, Blank>> ELSE <<>>)

mergeDocumentContent(docs, filename) ==
  <<H1(IF docs[1].metadata.title # <<>> THEN docs[1].metadata.title ELSE StripMd(filename)),
    Blank, NoteLine, Blank>>
  \o Flatten([i \in 1..Len(docs) |-> MergedBlock(docs, i)])

\* the repoPrefix of the prefixed strategy
RepoPrefix(doc) == Sanitize(doc.sourceRepoName)

\* a faulty variant: the prefixed copy gets a heading with its new name
PrefixedRetitled(doc) ==
  [doc EXCEPT !.filename = RepoPrefix(doc) \o <<"-">> \o doc.filename,
              !.conflictResolution = "prefixed",
              !.content = <<H1(RepoPrefix(doc) \o <<"-">> \o doc.filename)>> \o doc.content]

Prefixed(doc) ==
  [doc EXCEPT !.filename = RepoPrefix(doc) \o <<"-">> \o doc.filename,
              !.conflictResolution = "prefixed"]

MergedDoc(docs, filename, section) ==
  [filename |-> filename,
   relativePath |-> Undefined,
   absolutePath |-> Undefined,
   content |-> mergeDocumentContent(docs, filename),
   section |-> section,
   metadata |-> docs[1].metadata,
   sourceRepo |-> Undefined,
   sourceRepoName |-> Undefined,
   sourceRepos |-> [n \in 1..Len(docs) |-> docs[n].sourceRepo],
   conflictResolution |-> "merged"]

\* the sections whose conflicts are kept apart under a prefix
IsPrefixSection(section) == section = "adr" \/ section = "runbooks"

\* a faulty variant: the configured aggregate.conflictResolution decides
ResolveGroupByOption(docs, filename, section) ==
  IF Len(docs) = 1 THEN <<docs[1]>>
  ELSE IF cfg.conflictResolution = "prefix"
       THEN [n \in 1..Len(docs) |-> Prefixed(docs[n])]
       ELSE IF cfg.conflictResolution = "skip" THEN <<docs[1]>>
       ELSE <<MergedDoc(docs, filename, section)>>

\* a faulty variant: a group of one document is resolved like a conflict
ResolveGroupAlways(docs, filename, section) ==
  IF IsPrefixSection(section)
  THEN [n \in 1..Len(docs) |-> Prefixed(docs[n])]
  ELSE <<MergedDoc(docs, filename, section)>>

\* what resolveConflicts pushes to `resolved` for one entry of fileGroups
ResolveGroup(docs, filename, section) ==
  IF Len(docs) = 1 THEN <<docs[1]>>
  ELSE IF IsPrefixSection(section)
       THEN [n \in 1..Len(docs) |-> Prefixed(docs[n])]
       ELSE <<MergedDoc(docs, filename, section)>>

resolveConflicts(documents, section) ==
  LET keys == FileKeys(documents, <<>>)
  IN Flatten([n \in 1..Len(keys) |->
                ResolveGroup(FileGroup(documents, keys[n]), keys[n], section)])

\* a faulty variant: a repeated merge walks the repositories in reverse order
mergeDocumentationByRun(extractions, sections) ==
  LET walked == IF rerun
                THEN [n \in 1..Len(extractions) |-> extractions[Len(extractions) + 1 - n]]
                ELSE extractions
      grouped == GroupBySection(<<>>, walked, sections)
  IN [n \in 1..Len(grouped) |->
        [section |-> grouped[n].section,
         documents |-> resolveConflicts(grouped[n].documents, grouped[n].section)]]

mergeDocumentation(extractions, sections) ==
  LET grouped == GroupBySection(<<>>, extractions, sections)
  IN [n \in 1..Len(grouped) |->
        [section |-> grouped[n].section,
         documents |-> resolveConflicts(grouped[n].documents, grouped[n].section)]]


(***************************************************************************)
(* Link: linkCrossReferences / fixCrossRepoLinks.                          *)
(***************************************************************************)
\* docMap after the two docMap.set calls for every document of `merged`: the
\* sequence of the sets made, in order; a later set of a key replaces an earlier
DocMapOf(coll) ==
  Flatten([n \in 1..Len(coll) |->
    Flatten([m \in 1..Len(coll[n].documents) |->
      LET doc == coll[n].documents[m]
          section == coll[n].section
      IN <<[key |-> <<section, "/">> \o doc.filename, section |-> section, doc |-> doc],
           [key |-> doc.filename, section |-> section, doc |-> doc]>>])])

MapHas(docMap, key) == \E n \in 1..Len(docMap) : docMap[n].key = key

\* a faulty variant: the first set of a key is kept
MapGetFirst(docMap, key) ==
  LET hits == {n \in 1..Len(docMap) : docMap[n].key = key}
  IN docMap[CHOOSE n \in hits : \A m \in hits : n <= m]

\* docMap.get(key): the value of the last set of the key
MapGet(docMap, key) ==
  LET hits == {n \in 1..Len(docMap) : docMap[n].key = key}
  IN docMap[CHOOSE n \in hits : \A m \in hits : m <= n]

\* a faulty variant: only http:// counts as external
IsExternalHttpOnly(url) == StartsWith(url, <<"http", ":", "/", "/">>)

\* a faulty variant: the anchor is dropped
NewUrlNoAnchor(target, anchor) ==
  <<".", ".", "/", target.section, "/">> \o target.doc.filename

\* a faulty variant: every resolved link is rewritten, the source repository is not compared
IsCrossRepoAlways(docMap, filename, currentDoc) ==
  \E n \in 1..Len(docMap) : docMap[n].key = filename

HttpPrefix == <<"http", ":", "/", "/">>
HttpsPrefix == <<"https", ":", "/", "/">>

IsExternal(url) == StartsWith(url, HttpPrefix) \/ StartsWith(url, HttpsPrefix)

IsAnchorOnly(url) == StartsWith(url, <<"#">>)

\* basename(url.split('#')[0])
LinkFilename(url) == Basename(Split(url, "#")[1])

\* url.includes('#') ? url.split('#')[1] : ''
LinkAnchor(url) == IF Includes(url, "#") THEN Split(url, "#")[2] ELSE <<>>

\* a faulty variant: the anchor of a rewritten link is marked
NewUrlMarked(target, anchor) ==
  <<".", ".", "/", target.section, "/">> \o target.doc.filename
  \o (IF anchor # <<>> THEN <<"#", "ref", "-">> \o anchor ELSE <<>>)

\* `../${target.section}/${target.doc.filename}${anchor ? '#' + anchor : ''}`
NewUrl(target, anchor) ==
  <<".", ".", "/", target.section, "/">> \o target.doc.filename
  \o (IF anchor # <<>> THEN <<"#">> \o anchor ELSE <<>>)

\* a faulty variant: a merged document counts as a document of each of its
\* contributors
IsCrossRepoByContributor(docMap, filename, currentDoc) ==
  /\ MapHas(docMap, filename)
  /\ LET to == MapGet(docMap, filename).doc
         Owners(d) == IF d.sourceRepos # <<>>
                      THEN {d.sourceRepos[n] : n \in 1..Len(d.sourceRepos)}
                      ELSE {d.sourceRepo}
     IN Owners(to) \cap Owners(currentDoc) = {}

\* target && target.doc.sourceRepo !== currentDoc.sourceRepo
IsCrossRepo(docMap, filename, currentDoc) ==
  MapHas(docMap, filename) /\ MapGet(docMap, filename).doc.sourceRepo # currentDoc.sourceRepo

\* the replacement the callback of content.replace returns for one match
FixLink(text, url, currentDoc, docMap) ==
  IF IsExternal(url) THEN Link(text, url)
  ELSE IF IsAnchorOnly(url) THEN Link(text, url)
  ELSE IF IsCrossRepo(docMap, LinkFilename(url), currentDoc)
       THEN Link(text, NewUrl(MapGet(docMap, LinkFilename(url)), LinkAnchor(url)))
       ELSE Link(text, url)

fixCrossRepoLinks(content, currentDoc, docMap) ==
  [n \in 1..Len(content) |->
     IF content[n].k = "link"
     THEN FixLink(content[n].s[1], content[n].s[2], currentDoc, docMap)
     ELSE content[n]]

\* the collection after linkCrossReferences: `linked` is a shallow copy of `merged`
\* that shares its documents, whose content is assigned in place
linkCrossReferences(coll) ==
  LET docMap == DocMapOf(coll)
  IN [n \in 1..Len(coll) |->
        [section |-> coll[n].section,
         documents |-> [m \in 1..Len(coll[n].documents) |->
            LET doc == coll[n].documents[m]
            IN [doc EXCEPT !.content = fixCrossRepoLinks(doc.content, doc, docMap)]]]]


(***************************************************************************)
(* Index: generateIndex.                                                   *)
(***************************************************************************)
\* the order of Array.prototype.sort() on the section names of the model
SectionOrder ==
  <<"adr", "api", "architecture", "database", "deployment", "features", "runbooks", "security">>

\* the collation order of the tokens file names are made of
TokenOrder ==
  <<"-", ".", "3", "7", "a", "b", "c", "md", "o", "r", "svc", "ui", "web", "x">>

RankIn(order, tok) == CHOOSE n \in 1..Len(order) : order[n] = tok

SectionBefore(a, b) == RankIn(SectionOrder, a) < RankIn(SectionOrder, b)

\* a.localeCompare(b) < 0
RECURSIVE NameBefore(_, _)
NameBefore(a, b) ==
  IF b = <<>> THEN FALSE
  ELSE IF a = <<>> THEN TRUE
  ELSE IF Head(a) = Head(b) THEN NameBefore(Tail(a), Tail(b))
  ELSE RankIn(TokenOrder, Head(a)) < RankIn(TokenOrder, Head(b))

DocBefore(a, b) == NameBefore(a.filename, b.filename)

\* Array.prototype.sort with a comparator: the sort is stable, so seq[i] comes
\* after the elements that are before it and after the equal ones that precede it
Sort(seq, Before(_, _)) ==
  LET Pos(i) == 1 + Cardinality({j \in 1..Len(seq) :
                     Before(seq[j], seq[i]) \/ (~Before(seq[i], seq[j]) /\ j < i)})
  IN [n \in 1..Len(seq) |-> seq[CHOOSE i \in 1..Len(seq) : Pos(i) = n]]

\* section.charAt(0).toUpperCase() + section.slice(1)
SectionName(section) ==
  CASE section = "adr" -> "Adr"
    [] section = "api" -> "Api"
    [] section = "architecture" -> "Architecture"
    [] section = "database" -> "Database"
    [] section = "deployment" -> "Deployment"
    [] section = "features" -> "Features"
    [] section = "runbooks" -> "Runbooks"
    [] section = "security" -> "Security"

\* new Date().toISOString().split('T')[0] on day `day` of the model's calendar
IsoDate(day) == <<"2024", "-", "01", "-", ToString(10 + day)>>

\* doc.sourceRepos || [doc.sourceRepo]
ReposOf(doc) == IF doc.sourceRepos # <<>> THEN doc.sourceRepos ELSE <<doc.sourceRepo>>

\* the property names of the model that are canonical array indices, ascending
ArrayIndices == <<"3", "7">>

IsArrayIndex(key) == Len(key) = 1 /\ \E n \in 1..Len(ArrayIndices) : ArrayIndices[n] = key[1]

\* the order of Object.entries on a plain object: array indices in ascending
\* numeric order first, then the other names in insertion order
KeyBefore(a, b) ==
  /\ IsArrayIndex(a)
  /\ ~IsArrayIndex(b) \/ RankIn(ArrayIndices, a[1]) < RankIn(ArrayIndices, b[1])

\* a faulty variant: every new property is listed last
InsertKeyLast(byRepo, entry) == Append(byRepo, entry)

\* byRepo[repo] = [] for a new property
InsertKey(byRepo, entry) ==
  LET p == Cardinality({n \in 1..Len(byRepo) : ~KeyBefore(entry.repo, byRepo[n].repo)})
  IN SubSeq(byRepo, 1, p) \o <<entry>> \o SubSeq(byRepo, p + 1, Len(byRepo))

\* byRepo of one section: entries [repo, docs] in the order of Object.entries
RECURSIVE PushRepos(_, _, _)
PushRepos(byRepo, doc, repos) ==
  IF repos = <<>> THEN byRepo
  ELSE LET r == Head(repos)
           next == IF \E n \in 1..Len(byRepo) : byRepo[n].repo = r
                   THEN [n \in 1..Len(byRepo) |->
                           IF byRepo[n].repo = r
                           THEN [repo |-> r, docs |-> Append(byRepo[n].docs, doc)]
                           ELSE byRepo[n]]
                   ELSE InsertKey(byRepo, [repo |-> r, docs |-> <<doc>>])
       IN PushRepos(next, doc, Tail(repos))

RECURSIVE ByRepo(_, _)
ByRepo(byRepo, documents) ==
  IF documents = <<>> THEN byRepo
  ELSE ByRepo(PushRepos(byRepo, Head(documents), ReposOf(Head(documents))), Tail(documents))

\* the lines of one document of a repository group
DocEntry(section, doc) ==
  <<Text(<<"-", " ", "[">>
         \o (IF doc.metadata.title # <<>> THEN doc.metadata.title ELSE StripMd(doc.filename))
         \o <<"]", "(", section, "/">> \o doc.filename \o <<")">>)>>
  \o (IF doc.metadata.status # Null /\ doc.metadata.status # <<>>
      THEN <<Text(<<" ", " ", "-", " ", "Status", ":", " ">> \o doc.metadata.status)>>
      ELSE <<>>)
  \o (IF doc.conflictResolution # "none"
      THEN <<Text(<<" ", " ", "-", " ", "*", "(", doc.conflictResolution, ")", "*">>)>>
      ELSE <<>>)

RepoGroup(section, group) ==
  LET sortedDocs == Sort(group.docs, DocBefore)
  IN <<Text(<<"*", "*">> \o RepoNameOf(group.repo) \o <<"*", "*", ":">>), Blank>>
     \o Flatten([n \in 1..Len(sortedDocs) |-> DocEntry(section, sortedDocs[n])])
     \o <<Blank>>

SectionLines(coll, section) ==
  LET byRepo == ByRepo(<<>>, Get(coll, section))
  IN <<H3(<<SectionName(section)>>), Blank>>
     \o Flatten([n \in 1..Len(byRepo) |-> RepoGroup(section, byRepo[n])])

\* a faulty variant: the sections are counted in place of their documents
TotalDocsPerSection(coll) == Len(coll)

\* Object.values(merged).reduce((sum, docs) => sum + docs.length, 0)
RECURSIVE TotalDocs(_)
TotalDocs(coll) ==
  IF coll = <<>> THEN 0 ELSE Len(Head(coll).documents) + TotalDocs(Tail(coll))

SummaryLabel(name) == <<"-", " ", "*", "*", name, "*", "*", ":", " ">>

\* a faulty variant: the summary carries the date of the run
SummaryLinesDated(coll, repos) ==
  <<H2(<<"Summary">>), Blank,
    Text(SummaryLabel("Repositories") \o <<ToString(Len(repos))>>),
    Text(SummaryLabel("Sections") \o <<ToString(Len(Keys(coll)))>>),
    Text(SummaryLabel("Documents") \o <<ToString(TotalDocs(coll))>> \o IsoDate(today)),
    Blank>>

SummaryLines(coll, repos) ==
  <<H2(<<"Summary">>), Blank,
    Text(SummaryLabel("Repositories") \o <<ToString(Len(repos))>>),
    Text(SummaryLabel("Sections") \o <<ToString(Len(Keys(coll)))>>),
    Text(SummaryLabel("Documents") \o <<ToString(TotalDocs(coll))>>),
    Blank>>

DateLine(day) == Text(<<"*", "*", "Last", " ", "Updated", "*", "*", ":", " ">> \o IsoDate(day))

generateIndex(coll, repos, day) ==
  LET sortedSections == Sort(Keys(coll), SectionBefore)
  IN <<H1(<<"Aggregated", " ", "Documentation", " ", "Index">>), Blank,
       Text(<<">", " ", "Auto", "-", "generated">>), Blank,
       DateLine(day), Blank>>
     \o SummaryLines(coll, repos)
     \o <<H2(<<"Source", " ", "Repositories">>), Blank>>
     \o [n \in 1..Len(repos) |-> Text(<<"-", " ">> \o repos[n])]
     \o <<Blank, H2(<<"Documentation", " ", "Sections">>), Blank>>
     \o Flatten([n \in 1..Len(sortedSections) |-> SectionLines(coll, sortedSections[n])])
     \o <<H2(<<"Legend">>), Blank,
          Text(<<"-", " ", "*", "*", "prefixed", "*", "*">>),
          Text(<<"-", " ", "*", "*", "merged", "*", "*">>),
          Blank>>


(***************************************************************************)
(* The inputs of the model: repository identifiers, file contents and      *)
(* repository trees.                                                       *)
(***************************************************************************)
RepoA == <<"a", "/", "svc">>
RepoB == <<"b", "/", "svc">>
RepoC == <<"c", "/", "web", ".", "ui">>
\* an identifier without an owner: a sibling directory, never a clone URL
RepoS == <<"svc">>
\* identifiers that are numbers: the sibling directories ../3 and ../7
Repo3 == <<"3">>
Repo7 == <<"7">>

Repos == {RepoA, RepoB, RepoC, RepoS}

FileX == <<"x", ".", "md">>
FileO == <<"o", ".", "md">>
FileR == <<"r", ".", "md">>
FileSvcX == <<"svc", "-", "x", ".", "md">>

UrlO == <<".", ".", "/", "api", "/", "o", ".", "md">>
UrlOTop == UrlO \o <<"#", "top">>
UrlX == FileX
UrlHttp == <<"https", ":", "/", "/", "h", "/", "o", ".", "md">>
UrlAnchor == <<"#", "top">>
UrlNone == <<".", ".", "/", "api", "/", "zz", ".", "md">>
UrlTwo == FileO \o <<"#", "a", "#", "b">>
UrlEmpty == FileO \o <<"#">>
UrlR == FileR

ContentPlain == <<H1(<<"Plain">>), Text(<<"body">>)>>
ContentFront ==
  <<Rule, Kv("status", <<"draft">>), Kv("tags", <<"[", "a", ",", " ", "b", "]">>), Rule,
    H1(<<"Front">>), Text(<<"body">>)>>
ContentAdr == <<H1(<<"Adr">>), H2(<<"Status">>), Blank, Text(<<"Accepted">>)>>
ContentFrom == <<H1(<<"From">>), H2(<<"From", " ", "svc">>), Link(<<"x">>, UrlX)>>
ContentLinks ==
  <<H1(<<"Links">>), Link(<<"api">>, UrlO), Link(<<"ext">>, UrlHttp), Link(<<"up">>, UrlAnchor)>>
ContentRefs == <<Link(<<"top">>, UrlOTop), Link(<<"x">>, UrlX), Link(<<"zz">>, UrlNone)>>
ContentAnchors == <<Text(<<"see">>), Link(<<"two">>, UrlTwo), Link(<<"none">>, UrlEmpty)>>
ContentBoth == <<H1(<<"Both">>), Link(<<"x">>, UrlX), Link(<<"r">>, UrlR)>>

File(dir, name, content) == [dir |-> dir, name |-> name, content |-> content]

Missing == "missing"
TreeIds == {"t1", "t2", "t3", "t4", "t5"}

TreeOf(t) ==
  CASE t = "t1" -> <<File(Dir2("docs", "adr"), FileX, ContentAdr),
                  File(Dir2("docs", "api"), FileO, ContentPlain)>>
    [] t = "t2" -> <<File(Dir2("docs", "adr"), FileX, ContentRefs),
                  File(Dir1("adr"), FileX, ContentPlain),
                  File(Dir2("docs", "api"), FileO, ContentFront)>>
    [] t = "t3" -> <<File(Dir2("docs", "adr"), FileX, ContentPlain),
                  File(Dir2("docs", "adr"), FileSvcX, ContentAdr),
                  File(Dir1("api"), FileX, ContentFrom)>>
    [] t = "t4" -> <<File(Dir1("runbooks"), FileR, ContentLinks),
                  File(Dir2("docs", "adr"), FileO, ContentRefs)>>
    [] t = "t5" -> <<File(Dir2("docs", "api"), FileO, ContentAnchors),
                  File(Dir2("docs", "runbooks"), FileR, ContentRefs)>>
    [] t = "t6" -> <<File(Dir2("docs", "api"), FileX, ContentBoth),
                  File(Dir2("docs", "runbooks"), FileR, ContentRefs)>>

\* the sections the runs of the model ask for
ModelSections == <<"adr", "api", "runbooks">>
SectionFilters == {<<>>, <<"api", "adr">>}

\* sequences of length lo..hi over a set
SeqsOf(S, lo, hi) == UNION {[1..n -> S] : n \in lo..hi}


(***************************************************************************)
(* The run of the aggregate command (aggregateCommand.action) and the      *)
(* state it works on.                                                      *)
(***************************************************************************)
LocalDirs == {RepoNameOf(r) : r \in Repos}

\* join(repoDir, repoName) and join(cwd, '..', repoName), relative to the working directory
RepoPath(clone, repoName) ==
  IF clone THEN <<".", "docflow", "/", "repos", "/">> \o repoName
  ELSE <<".", ".", "/">> \o repoName

\* the tree `git clone` of a repository delivers
Remote(repo) == IF repo = RepoA THEN "t1" ELSE IF repo = RepoB THEN "t2" ELSE "t4"

\* repo.includes('/') && !repo.startsWith('.') && !repo.startsWith('/')
ValidFormat(repo) ==
  Includes(repo, "/") /\ ~StartsWith(repo, <<".">>) /\ ~StartsWith(repo, <<"/">>)

NoDir == [exists |-> FALSE, files |-> {}]
StaleDir == [exists |-> TRUE,
             files |-> {[path |-> <<"old", ".", "md">>, content |-> <<Text(<<"stale">>)>>]}]

\* fse.writeFile(join(outputPath, path), content) after ensureDir
WriteFile(o, path, content) ==
  [exists |-> TRUE,
   files |-> {f \in o.files : f.path # path} \cup {[path |-> path, content |-> content]}]

IndexPath == <<"INDEX", ".", "md">>

DocPath(section, doc) == <<section, "/">> \o doc.filename

\* the documents of a collection in the order the write loop visits them
AllDocuments(coll) ==
  Flatten([n \in 1..Len(coll) |->
    [m \in 1..Len(coll[n].documents) |->
       [section |-> coll[n].section, doc |-> coll[n].documents[m]]]])

NoRun == [linked |-> <<>>, index |-> <<>>]

Fresh ==
  /\ cloned = 0 /\ tried = 0 /\ allDocs = <<>> /\ warnings = <<>>
  /\ merged = <<>> /\ linked = <<>> /\ unlinked = <<>> /\ index = <<>>
  /\ written = 0 /\ rerun = FALSE /\ prev = NoRun

\* the command is started: any options, any state of the directories
Init ==
  /\ cfg \in [given : {TRUE}, repos : SeqsOf(Repos, 0, MaxRepos),
              sections : {<<>>, ModelSections}, clone : BOOLEAN, clean : BOOLEAN]
            \cup {[given |-> FALSE, repos |-> <<>>, sections |-> <<>>,
                   clone |-> FALSE, clean |-> FALSE]}
  /\ fs \in [LocalDirs -> {Missing, "t1", "t2", "t4"}]
  /\ out \in {NoDir, StaleDir}
  /\ today = 0
  /\ pc = "load"
  /\ error = "none"
  /\ Fresh

\* lines 36-43 and 50-57: no configuration and no --repos ends the run
LoadConfig ==
  /\ pc = "load"
  /\ pc' = IF cfg.given THEN "clean" ELSE "failed"
  /\ error' = IF cfg.given THEN "none" ELSE "config"
  /\ UNCHANGED <<cfg, fs, out, today, cloned, tried, allDocs, warnings, merged, linked,
                 unlinked, index, written, rerun, prev>>

AfterClone == IF Len(cfg.repos) = 0 THEN "merge" ELSE "extract"

\* a faulty variant: the output directory is left for the write step to replace
CleanOutputLater ==
  /\ pc = "clean"
  /\ out' = out
  /\ pc' = IF cfg.clone /\ Len(cfg.repos) > 0 THEN "clone" ELSE AfterClone
  /\ UNCHANGED <<cfg, fs, today, error, cloned, tried, allDocs, warnings, merged, linked,
                 unlinked, index, written, rerun, prev>>

\* lines 80-85
CleanOutput ==
  /\ pc = "clean"
  /\ out' = IF cfg.clean /\ out.exists THEN [exists |-> TRUE, files |-> {}] ELSE out
  /\ pc' = IF cfg.clone /\ Len(cfg.repos) > 0 THEN "clone" ELSE AfterClone
  /\ UNCHANGED <<cfg, fs, today, error, cloned, tried, allDocs, warnings, merged, linked,
                 unlinked, index, written, rerun, prev>>

\* one pass of the loop of cloneRepos that ends without an exception
CloneRepo ==
  /\ pc = "clone"
  /\ LET repo == cfg.repos[cloned + 1]
         repoName == RepoNameOf(repo)
     IN /\ fs[repoName] # Missing \/ ValidFormat(repo)
        /\ fs' = IF fs[repoName] # Missing THEN fs
                 ELSE [fs EXCEPT ![repoName] = Remote(repo)]
  /\ cloned' = cloned + 1
  /\ pc' = IF cloned + 1 = Len(cfg.repos) THEN AfterClone ELSE "clone"
  /\ UNCHANGED <<cfg, out, today, error, tried, allDocs, warnings, merged, linked,
                 unlinked, index, written, rerun, prev>>

\* a faulty variant: a repository that cannot be cloned is passed over
CloneFailsContinue ==
  /\ pc = "clone"
  /\ fs[RepoNameOf(cfg.repos[cloned + 1])] = Missing
  /\ cloned' = cloned + 1
  /\ pc' = IF cloned + 1 = Len(cfg.repos) THEN AfterClone ELSE "clone"
  /\ UNCHANGED <<cfg, fs, out, today, error, tried, allDocs, warnings, merged, linked,
                 unlinked, index, written, rerun, prev>>

\* one pass of the loop of cloneRepos that throws: the identifier is not org/repo,
\* or git clone fails; the command rethrows and exits
CloneFails ==
  /\ pc = "clone"
  /\ fs[RepoNameOf(cfg.repos[cloned + 1])] = Missing
  /\ pc' = "failed"
  /\ error' = "clone"
  /\ UNCHANGED <<cfg, fs, out, today, cloned, tried, allDocs, warnings, merged, linked,
                 unlinked, index, written, rerun, prev>>

\* a faulty variant: the first repository that cannot be extracted ends the extraction loop
ExtractRepoAbort ==
  /\ pc = "extract"
  /\ LET repo == cfg.repos[tried + 1]
         repoName == RepoNameOf(repo)
         repoPath == RepoPath(cfg.clone, repoName)
     IN IF fs[repoName] = Missing
        THEN /\ warnings' = Append(warnings, repo)
             /\ pc' = "merge"
             /\ UNCHANGED allDocs
        ELSE /\ allDocs' = Append(allDocs,
                  [repo |-> repo, repoName |-> repoName,
                   docs |-> extractDocs(repoPath, TreeOf(fs[repoName]), cfg.sections)])
             /\ pc' = IF tried + 1 = Len(cfg.repos) THEN "merge" ELSE "extract"
             /\ UNCHANGED warnings
  /\ tried' = tried + 1
  /\ UNCHANGED <<cfg, fs, out, today, error, cloned, merged, linked, unlinked, index, written,
                 rerun, prev>>

\* one pass of the extraction loop, lines 105-121
ExtractRepo ==
  /\ pc = "extract"
  /\ LET repo == cfg.repos[tried + 1]
         repoName == RepoNameOf(repo)
         repoPath == RepoPath(cfg.clone, repoName)
     IN IF fs[repoName] = Missing
        THEN /\ warnings' = Append(warnings, repo)
             /\ UNCHANGED allDocs
        ELSE /\ allDocs' = Append(allDocs,
                  [repo |-> repo, repoName |-> repoName,
                   docs |-> extractDocs(repoPath, TreeOf(fs[repoName]), cfg.sections)])
             /\ UNCHANGED warnings
  /\ tried' = tried + 1
  /\ pc' = IF tried + 1 = Len(cfg.repos) THEN "merge" ELSE "extract"
  /\ UNCHANGED <<cfg, fs, out, today, error, cloned, merged, linked, unlinked, index, written,
                 rerun, prev>>

\* a faulty variant: the links are rewritten while the merge is still the running stage
MergeAndLink ==
  /\ pc = "merge"
  /\ merged' = mergeDocumentation(allDocs, cfg.sections)
  /\ linked' = linkCrossReferences(merged')
  /\ pc' = "link"
  /\ UNCHANGED <<cfg, fs, out, today, error, cloned, tried, allDocs, warnings, unlinked,
                 index, written, rerun, prev>>

\* lines 125-128
Merge ==
  /\ pc = "merge"
  /\ merged' = mergeDocumentation(allDocs, cfg.sections)
  /\ pc' = "link"
  /\ UNCHANGED <<cfg, fs, out, today, error, cloned, tried, allDocs, warnings, linked, unlinked,
                 index, written, rerun, prev>>

\* lines 130-133: the documents of merged are assigned in place
LinkRefs ==
  /\ pc = "link"
  /\ unlinked' = merged
  /\ linked' = linkCrossReferences(merged)
  /\ merged' = linked'
  /\ pc' = "index"
  /\ UNCHANGED <<cfg, fs, out, today, error, cloned, tried, allDocs, warnings, index, written,
                 rerun, prev>>

\* a faulty variant: the lists of the collection themselves are sorted by filename
GenIndexSorting ==
  /\ pc = "index"
  /\ index' = generateIndex(linked, cfg.repos, today)
  /\ linked' = [n \in 1..Len(linked) |->
                  [section |-> linked[n].section,
                   documents |-> Sort(linked[n].documents, DocBefore)]]
  /\ pc' = "write"
  /\ UNCHANGED <<cfg, fs, out, today, error, cloned, tried, allDocs, warnings, merged,
                 unlinked, written, rerun, prev>>

\* a faulty variant: the index is given the repositories that were extracted
GenIndexExtracted ==
  /\ pc = "index"
  /\ index' = generateIndex(linked, [n \in 1..Len(allDocs) |-> allDocs[n].repo], today)
  /\ pc' = "write"
  /\ UNCHANGED <<cfg, fs, out, today, error, cloned, tried, allDocs, warnings, merged, linked,
                 unlinked, written, rerun, prev>>

\* lines 135-138
GenIndex ==
  /\ pc = "index"
  /\ index' = generateIndex(linked, cfg.repos, today)
  /\ pc' = "write"
  /\ UNCHANGED <<cfg, fs, out, today, error, cloned, tried, allDocs, warnings, merged, linked,
                 unlinked, written, rerun, prev>>

\* lines 141-149
WriteIndex ==
  /\ pc = "write"
  /\ out' = WriteFile(out, IndexPath, index)
  /\ pc' = IF AllDocuments(linked) = <<>> THEN "done" ELSE "writeDocs"
  /\ UNCHANGED <<cfg, fs, today, error, cloned, tried, allDocs, warnings, merged, linked,
                 unlinked, index, written, rerun, prev>>

\* one writeFile of the loop of lines 152-160
WriteDoc ==
  /\ pc = "writeDocs"
  /\ LET d == AllDocuments(linked)[written + 1]
     IN out' = WriteFile(out, DocPath(d.section, d.doc), d.doc.content)
  /\ written' = written + 1
  /\ pc' = IF written + 1 = Len(AllDocuments(linked)) THEN "done" ELSE "writeDocs"
  /\ UNCHANGED <<cfg, fs, today, error, cloned, tried, allDocs, warnings, merged, linked,
                 unlinked, index, rerun, prev>>

\* ensureDir or writeFile throws (the disk is full, a path is not writable): line 172
WriteFails ==
  /\ pc \in {"write", "writeDocs"}
  /\ pc' = "failed"
  /\ error' = "write"
  /\ UNCHANGED <<cfg, fs, out, today, cloned, tried, allDocs, warnings, merged, linked,
                 unlinked, index, written, rerun, prev>>

Next ==
  \/ LoadConfig \/ CleanOutput \/ CloneRepo \/ CloneFails \/ ExtractRepo
  \/ Merge \/ LinkRefs \/ GenIndex \/ WriteIndex \/ WriteDoc \/ WriteFails

Spec == Init /\ [][Next]_vars

(***************************************************************************)
(* The pipeline called as a library: mergeDocumentation, linkCrossReferences*)
(* and generateIndex on any extracted documents, run twice on the same     *)
(* documents while the clock goes on.                                      *)
(***************************************************************************)
LibRepos == {RepoA, RepoB, RepoC}

Extracted(repo, t) ==
  [repo |-> repo, repoName |-> RepoNameOf(repo),
   docs |-> extractDocs(RepoPath(FALSE, RepoNameOf(repo)), TreeOf(t), ModelSections)]

InitLib ==
  /\ \E picks \in SeqsOf(LibRepos \X TreeIds, 1, MaxRepos) :
       /\ allDocs = [n \in 1..Len(picks) |-> Extracted(picks[n][1], picks[n][2])]
       /\ \E filter \in SectionFilters :
            cfg = [given |-> TRUE, repos |-> [n \in 1..Len(picks) |-> picks[n][1]],
                   sections |-> filter, clone |-> FALSE, clean |-> FALSE]
  /\ fs = [d \in LocalDirs |-> Missing]
  /\ out = NoDir
  /\ today = 0
  /\ pc = "merge"
  /\ error = "none"
  /\ cloned = 0 /\ tried = Len(allDocs) /\ warnings = <<>>
  /\ merged = <<>> /\ linked = <<>> /\ unlinked = <<>> /\ index = <<>>
  /\ written = 0 /\ rerun = FALSE /\ prev = NoRun

\* the same documents go through merge, link and index again
Rerun ==
  /\ pc = "write"
  /\ ~rerun
  /\ rerun' = TRUE
  /\ prev' = [linked |-> linked, index |-> index]
  /\ merged' = <<>> /\ linked' = <<>> /\ unlinked' = <<>> /\ index' = <<>>
  /\ pc' = "merge"
  /\ UNCHANGED <<cfg, fs, out, today, error, cloned, tried, allDocs, warnings, written>>

\* the calendar day changes before generateIndex reads the clock (line 403), the
\* one place of the pipeline where the date is observed; days are counted from
\* the day of the first run
DayPasses ==
  /\ pc = "index"
  /\ rerun
  /\ today < MaxDay
  /\ today' = today + 1
  /\ UNCHANGED <<cfg, fs, out, pc, error, cloned, tried, allDocs, warnings, merged, linked,
                 unlinked, index, written, rerun, prev>>

NextLib == Merge \/ LinkRefs \/ GenIndex \/ Rerun \/ DayPasses

SpecLib == InitLib /\ [][NextLib]_vars


(***************************************************************************)
(* mergeDocumentation under the documented option                          *)
(* aggregate.conflictResolution of docflow.config.json: the same extracted *)
(* documents are merged under one value of the option and then under       *)
(* another one.                                                            *)
(***************************************************************************)
ConflictOptions == {"prefix", "merge", "skip", "error"}

InitPolicy ==
  /\ \E picks \in SeqsOf(LibRepos \X TreeIds, 1, MaxRepos) :
       /\ allDocs = [n \in 1..Len(picks) |-> Extracted(picks[n][1], picks[n][2])]
       /\ \E filter \in SectionFilters, option \in ConflictOptions :
            cfg = [given |-> TRUE, repos |-> [n \in 1..Len(picks) |-> picks[n][1]],
                   sections |-> filter, clone |-> FALSE, clean |-> FALSE,
                   conflictResolution |-> option]
  /\ fs = [d \in LocalDirs |-> Missing]
  /\ out = NoDir
  /\ today = 0
  /\ pc = "merge"
  /\ error = "none"
  /\ cloned = 0 /\ tried = Len(allDocs) /\ warnings = <<>>
  /\ merged = <<>> /\ linked = <<>> /\ unlinked = <<>> /\ index = <<>>
  /\ written = 0 /\ rerun = FALSE /\ prev = NoRun

\* the option is given another value and the same documents are merged again
Reconfigure ==
  /\ pc = "link"
  /\ ~rerun
  /\ rerun' = TRUE
  /\ \E option \in ConflictOptions \ {cfg.conflictResolution} :
       cfg' = [cfg EXCEPT !.conflictResolution = option]
  /\ prev' = [merged |-> merged, option |-> cfg.conflictResolution]
  /\ merged' = <<>>
  /\ pc' = "merge"
  /\ UNCHANGED <<fs, out, today, error, cloned, tried, allDocs, warnings, linked, unlinked,
                 index, written>>

NextPolicy == Merge \/ Reconfigure

SpecPolicy == InitPolicy /\ [][NextPolicy]_vars

(***************************************************************************)
(* mergeDocumentation called twice on the same arguments: the same         *)
(* extracted documents, in the same order, with the same section filter.   *)
(***************************************************************************)
\* the first result is kept aside and mergeDocumentation is called again
Remerge ==
  /\ pc = "link"
  /\ ~rerun
  /\ rerun' = TRUE
  /\ prev' = [merged |-> merged]
  /\ merged' = <<>>
  /\ pc' = "merge"
  /\ UNCHANGED <<cfg, fs, out, today, error, cloned, tried, allDocs, warnings, linked, unlinked,
                 index, written>>

NextRemerge == Merge \/ Remerge

SpecRemerge == InitLib /\ [][NextRemerge]_vars

(***************************************************************************)
(* generateIndex on collections of repositories whose identifiers are      *)
(* names with an owner and plain numbers.                                  *)
(***************************************************************************)
OrderRepos == {RepoA, RepoC, Repo3, Repo7}

InitOrder ==
  /\ \E picks \in SeqsOf(OrderRepos \X TreeIds, 1, MaxRepos) :
       /\ allDocs = [n \in 1..Len(picks) |-> Extracted(picks[n][1], picks[n][2])]
       /\ \E filter \in SectionFilters :
            cfg = [given |-> TRUE, repos |-> [n \in 1..Len(picks) |-> picks[n][1]],
                   sections |-> filter, clone |-> FALSE, clean |-> FALSE]
  /\ fs = [d \in LocalDirs |-> Missing]
  /\ out = NoDir
  /\ today = 0
  /\ pc = "merge"
  /\ error = "none"
  /\ cloned = 0 /\ tried = Len(allDocs) /\ warnings = <<>>
  /\ merged = <<>> /\ linked = <<>> /\ unlinked = <<>> /\ index = <<>>
  /\ written = 0 /\ rerun = FALSE /\ prev = NoRun

NextOrder == Merge \/ LinkRefs \/ GenIndex

SpecOrder == InitOrder /\ [][NextOrder]_vars

(***************************************************************************)
(* linkCrossReferences on the result of mergeDocumentation, and then on    *)
(* its own result.                                                         *)
(***************************************************************************)
LinkTrees == TreeIds \cup {"t6"}

InitLink ==
  /\ \E picks \in SeqsOf(LibRepos \X LinkTrees, 1, MaxRepos) :
       /\ allDocs = [n \in 1..Len(picks) |-> Extracted(picks[n][1], picks[n][2])]
       /\ \E filter \in SectionFilters :
            cfg = [given |-> TRUE, repos |-> [n \in 1..Len(picks) |-> picks[n][1]],
                   sections |-> filter, clone |-> FALSE, clean |-> FALSE]
  /\ fs = [d \in LocalDirs |-> Missing]
  /\ out = NoDir
  /\ today = 0
  /\ pc = "merge"
  /\ error = "none"
  /\ cloned = 0 /\ tried = Len(allDocs) /\ warnings = <<>>
  /\ merged = <<>> /\ linked = <<>> /\ unlinked = <<>> /\ index = <<>>
  /\ written = 0 /\ rerun = FALSE /\ prev = NoRun

\* linkCrossReferences is applied to the collection it returned
Relink ==
  /\ pc = "index"
  /\ ~rerun
  /\ rerun' = TRUE
  /\ prev' = [linked |-> linked]
  /\ linked' = linkCrossReferences(linked)
  /\ merged' = linked'
  /\ UNCHANGED <<cfg, fs, out, today, pc, error, cloned, tried, allDocs, warnings, unlinked,
                 index, written>>

NextLink == Merge \/ LinkRefs \/ Relink

SpecLink == InitLink /\ [][NextLink]_vars

(***************************************************************************)
(* extractMetadata on the content of one file: extractSection reads the    *)
(* file docs/adr/x.md of the repository svc.                               *)
(***************************************************************************)
\* the frontmatter a file starts with, when it has one
FrontParts ==
  { <<>>,
    <<Rule, Kv("status", <<"draft">>), Kv("date", <<"2024">>), Kv("author", <<"ann">>),
      Kv("tags", <<"[", "a", ",", " ", "b", "]">>), Rule>>,
    <<Rule, Kv("author", <<"ann">>), Rule>>,
    <<Rule, Kv2("up", "date", <<"daily">>), Kv2("co", "author", <<"bob">>), Rule>>,
    <<Rule, Kv("status", <<"draft">>)>>,
    <<Text(<<"intro">>), Rule, Kv("status", <<"draft">>), Kv("date", <<"2024">>), Rule>> }

TitleParts == { <<>>, <<H1(<<"Title">>)>> }

\* the ADR-style headings of a file, with and without a value
AdrParts ==
  { <<>>,
    <<H2(<<"Status">>), Blank, Text(<<"Accepted">>)>>,
    <<H2(<<"Date">>), Text(<<"2023">>)>>,
    <<H2(<<"Status">>), Text(<<"Accepted">>), H2(<<"Date">>), Blank, Text(<<"2023">>)>>,
    <<H2(<<"Status">>), Blank>> }

TailParts == { <<>>, <<Text(<<"body">>)>> }

InitMeta ==
  /\ \E front \in FrontParts, title \in TitleParts, adr \in AdrParts, tail \in TailParts :
       prev = [content |-> front \o title \o tail \o adr]
  /\ cfg = [given |-> TRUE, repos |-> <<RepoS>>, sections |-> <<"adr">>,
            clone |-> FALSE, clean |-> FALSE]
  /\ fs = [d \in LocalDirs |-> Missing]
  /\ out = NoDir
  /\ today = 0
  /\ pc = "extract"
  /\ error = "none"
  /\ cloned = 0 /\ tried = 0 /\ allDocs = <<>> /\ warnings = <<>>
  /\ merged = <<>> /\ linked = <<>> /\ unlinked = <<>> /\ index = <<>>
  /\ written = 0 /\ rerun = FALSE

\* extractSection reads the file and records the document with its metadata
ExtractFile ==
  /\ pc = "extract"
  /\ tried = 0
  /\ allDocs' = <<[repo |-> RepoS, repoName |-> RepoNameOf(RepoS),
                   docs |-> extractDocs(RepoPath(FALSE, RepoNameOf(RepoS)),
                                        <<File(Dir2("docs", "adr"), FileX, prev.content)>>,
                                        cfg.sections)]>>
  /\ tried' = 1
  /\ pc' = "merge"
  /\ UNCHANGED <<cfg, fs, out, today, error, cloned, warnings, merged, linked, unlinked,
                 index, written, rerun, prev>>

NextMeta == ExtractFile

SpecMeta == InitMeta /\ [][NextMeta]_vars

(***************************************************************************)
(* Properties.                                                             *)
(***************************************************************************)
\* the run is past mergeDocumentation
Merged == pc \in {"link", "index", "write", "writeDocs", "done"} \/ (pc = "failed" /\ error = "write")

\* the run is past linkCrossReferences
Linked == pc \in {"index", "write", "writeDocs", "done"} \/ (pc = "failed" /\ error = "write")

\* the collection mergeDocumentation returned, before any link was rewritten
MergeResult == IF Linked THEN unlinked ELSE merged

PassesFilter(section) == Len(cfg.sections) = 0 \/ Includes(cfg.sections, section)

\* the documents the repositories contribute to `section` under the name `filename`,
\* in input order: [repo, repoName, doc]
Contributions(section, filename) ==
  Flatten([n \in 1..Len(allDocs) |->
    Flatten([e \in 1..Len(allDocs[n].docs) |->
      IF allDocs[n].docs[e].section = section /\ PassesFilter(section)
      THEN LET Named(d) == d.filename = filename
               ds == SelectSeq(allDocs[n].docs[e].documents, Named)
           IN [m \in 1..Len(ds) |->
                 [repo |-> allDocs[n].repo, repoName |-> allDocs[n].repoName, doc |-> ds[m]]]
      ELSE <<>>])])

\* every contribution is of another repository
DistinctRepos(contribs) ==
  \A i, j \in 1..Len(contribs) : i # j => contribs[i].repo # contribs[j].repo

UniqueFilenames(coll) ==
  \A n \in 1..Len(coll) :
    \A i, j \in 1..Len(coll[n].documents) :
      i # j => coll[n].documents[i].filename # coll[n].documents[j].filename

\* C1 (as claimed; the code violates it): after mergeDocumentation, and still
\* after linkCrossReferences, no section of the MergedCollection holds two
\* documents with the same filename.
C1_FilenamesUnique ==
  /\ Merged => UniqueFilenames(merged)
  /\ Linked => UniqueFilenames(linked)


Filenames == {FileX, FileO, FileR, FileSvcX}

PrefixSections == {"adr", "runbooks"}
MergeSections == {"api"}

NamedIn(coll, section, filename) ==
  IF Has(coll, section)
  THEN LET Named(d) == d.filename = filename IN SelectSeq(Get(coll, section), Named)
  ELSE <<>>

\* C2 (as claimed; the code violates it): in adr and runbooks, when N >= 2
\* repositories each contribute one document named F, the merged section holds
\* N documents for F, tagged 'prefixed', under N distinct names {repository}-F.
\* The repository part is accepted in both readings, the sanitized identifier
\* (a-svc) and the sanitized last path segment (svc), so that the formula fails
\* only where the names are not distinct.
C2_PrefixUniqueness ==
  Merged =>
    \A section \in PrefixSections, F \in Filenames :
      LET c == Contributions(section, F)
          Mine(d) == /\ d.conflictResolution = "prefixed"
                     /\ \E i \in 1..Len(c) :
                          \/ d.filename = Sanitize(c[i].repo) \o <<"-">> \o F
                          \/ d.filename = Sanitize(c[i].repoName) \o <<"-">> \o F
          mine == IF Has(MergeResult, section)
                  THEN SelectSeq(Get(MergeResult, section), Mine) ELSE <<>>
      IN (Len(c) >= 2 /\ DistinctRepos(c)) =>
           /\ Len(mine) = Len(c)
           /\ \A i, j \in 1..Len(mine) : i # j => mine[i].filename # mine[j].filename

IsFromHeading(ln) == ln.k = "h2" /\ StartsWith(ln.s[1], <<"From", " ">>)

\* C3 (as claimed; refuted): in a section outside adr and runbooks, when N >= 2
\* repositories contribute F, the section holds one document F, tagged
\* 'merged', with the N repository identifiers in input order as sourceRepos,
\* whose content has exactly the N headings '## From {repository identifier}'
\* in that order and exactly N-1 horizontal rules.
C3_SingleMergedSurvivor ==
  Merged =>
    \A section \in MergeSections, F \in Filenames :
      LET c == Contributions(section, F)
          named == NamedIn(MergeResult, section, F)
      IN (Len(c) >= 2 /\ DistinctRepos(c)) =>
           /\ Len(named) = 1
           /\ named[1].conflictResolution = "merged"
           /\ named[1].sourceRepos = [i \in 1..Len(c) |-> c[i].repo]
           /\ SelectSeq(named[1].content, IsFromHeading)
                = [i \in 1..Len(c) |-> H2(<<"From", " ">> \o c[i].repo)]
           /\ Len(SelectSeq(named[1].content, IsRule)) = Len(c) - 1

\* the body of a contribution: its content without a leading level-1 heading line
BodyOf(contrib) ==
  LET content == contrib.doc.content
  IN IF Len(content) >= 2 /\ content[1].k = "h1"
     THEN SubSeq(content, 2, Len(content)) ELSE content

\* the line of the merged content at which the block of contribution i starts:
\* four lines of title and note, then per earlier block its heading, a blank, the
\* body, a blank, a rule and a blank
RECURSIVE BlockStart(_, _)
BlockStart(c, i) == IF i = 1 THEN 5 ELSE BlockStart(c, i - 1) + Len(BodyOf(c[i - 1])) + 5

\* C3 (amended): in a section outside adr and runbooks, when N >= 2 documents
\* are contributed under the name F, the section holds exactly one document F,
\* tagged 'merged', whose sourceRepos are the contributing repository identifiers
\* in input order and whose content is the title, the note and then, per
\* contribution in input order, the heading '## From {repoName}' (repoName the
\* last path segment of the identifier), a blank line, the contributed content
\* without a leading level-1 heading line, and a blank line, with a '---' rule and
\* a blank line between two blocks: N generated headings and N-1 generated rules,
\* next to whatever headings and rules the contributed contents hold themselves.
C3_MergedSurvivor ==
  Merged =>
    \A section \in MergeSections, F \in Filenames :
      LET c == Contributions(section, F)
          N == Len(c)
          named == NamedIn(MergeResult, section, F)
          content == named[1].content
      IN N >= 2 =>
           /\ Len(named) = 1
           /\ named[1].conflictResolution = "merged"
           /\ named[1].sourceRepos = [i \in 1..N |-> c[i].repo]
           /\ Len(content) = BlockStart(c, N) + Len(BodyOf(c[N])) + 2
           /\ content[1].k = "h1" /\ content[2] = Blank
           /\ content[3] = NoteLine /\ content[4] = Blank
           /\ \A i \in 1..N :
                LET at == BlockStart(c, i)
                    body == BodyOf(c[i])
                IN /\ content[at] = H2(<<"From", " ">> \o RepoNameOf(c[i].repo))
                   /\ content[at + 1] = Blank
                   /\ SubSeq(content, at + 2, at + 1 + Len(body)) = body
                   /\ content[at + 2 + Len(body)] = Blank
                   /\ i < N => /\ content[at + 3 + Len(body)] = Rule
                               /\ content[at + 4 + Len(body)] = Blank

\* two repositories have contributed the same name to api, one of the contents
\* holding a rule of its own
C3_Witness ==
  /\ Merged
  /\ \E F \in Filenames :
       LET c == Contributions("api", F)
       IN /\ Len(c) >= 2 /\ DistinctRepos(c)
          /\ \E i \in 1..Len(c) : \E n \in 1..Len(c[i].doc.content) : c[i].doc.content[n] = Rule
          /\ Len(NamedIn(MergeResult, "api", F)) = 1


\* the second run of the pipeline on the same documents has generated its index
RanTwice == pc = "write" /\ rerun

\* C4 (as claimed; refuted): two runs of merge, link and index on the same
\* extracted documents and repository list give identical document contents and
\* an identical index text, whenever the runs are made.
C4_Deterministic ==
  RanTwice => linked = prev.linked /\ index = prev.index

IsDateLine(ln) == \E d \in 0..today : ln = DateLine(d)

\* C4 (amended): the two runs give identical documents, and index texts that
\* are identical line for line except for the 'Last Updated' line, which holds
\* the date of each run: the index is byte-identical when both runs are made on
\* the same day.
C4_DeterministicButDate ==
  RanTwice =>
    /\ linked = prev.linked
    /\ Len(index) = Len(prev.index)
    /\ \A n \in 1..Len(index) :
         index[n] # prev.index[n] => IsDateLine(index[n]) /\ IsDateLine(prev.index[n])
    /\ \A d \in 0..today :
         (\E n \in 1..Len(index) : index[n] = DateLine(d) /\ prev.index[n] = DateLine(d))
           => index = prev.index

\* the two runs were made on different days and have rewritten a link
C4_Witness ==
  /\ RanTwice
  /\ index # prev.index
  /\ linked # unlinked

(***************************************************************************)
(* The links of the collection handed to linkCrossReferences.              *)
(***************************************************************************)
\* the positions <<section, document, line>> of the link lines
LinkAt ==
  {pos \in (1..Len(unlinked)) \X (1..8) \X (1..24) :
     /\ pos[2] <= Len(unlinked[pos[1]].documents)
     /\ pos[3] <= Len(unlinked[pos[1]].documents[pos[2]].content)
     /\ unlinked[pos[1]].documents[pos[2]].content[pos[3]].k = "link"}

DocBeforeLink(pos) == unlinked[pos[1]].documents[pos[2]]
LineBefore(pos) == unlinked[pos[1]].documents[pos[2]].content[pos[3]]
LineAfter(pos) == linked[pos[1]].documents[pos[2]].content[pos[3]]
TextOf(pos) == LineBefore(pos).s[1]
TargetOf(pos) == LineBefore(pos).s[2]

\* the positions of the token tok in url
Places(url, tok) == {n \in 1..Len(url) : url[n] = tok}
FirstPlace(S) == CHOOSE n \in S : \A m \in S : n <= m
LastPlace(S) == CHOOSE n \in S : \A m \in S : m <= n

\* the target up to its first '#'
PathPart(url) ==
  IF Places(url, "#") = {} THEN url ELSE SubSeq(url, 1, FirstPlace(Places(url, "#")) - 1)

\* the anchor: what stands between the first '#' of the target and a second one
AnchorPart(url) ==
  LET hashes == Places(url, "#")
      rest == hashes \ {FirstPlace(hashes)}
  IN IF hashes = {} THEN <<>>
     ELSE SubSeq(url, FirstPlace(hashes) + 1,
                 IF rest = {} THEN Len(url) ELSE FirstPlace(rest) - 1)

\* the basename of the path of the target
BasenameOfTarget(url) ==
  LET path == PathPart(url)
      slashes == Places(path, "/")
  IN IF slashes = {} THEN path ELSE SubSeq(path, LastPlace(slashes) + 1, Len(path))

IsHttp(url) ==
  \/ Len(url) >= 4 /\ url[1] \in {"http", "https"} /\ url[2] = ":" /\ url[3] = "/" /\ url[4] = "/"

IsAnchor(url) == url[1] = "#"

IsRelative(url) == ~IsHttp(url) /\ ~IsAnchor(url)

\* the entries [section, doc] of the CrossReferenceIndex under a bare filename
Indexed(name) ==
  LET all == AllDocuments(unlinked)
      Named(e) == e.doc.filename = name
  IN SelectSeq(all, Named)

Found(name) == Indexed(name) # <<>>

\* the document a bare filename resolves to: the one indexed last
Resolved(name) == Indexed(name)[Len(Indexed(name))]

CrossRepoLink(pos) ==
  /\ IsRelative(TargetOf(pos))
  /\ Found(BasenameOfTarget(TargetOf(pos)))
  /\ Resolved(BasenameOfTarget(TargetOf(pos))).doc.sourceRepo # DocBeforeLink(pos).sourceRepo

\* C5: a link [text](target) whose target is neither http(s) nor anchor-only,
\* whose basename is in the CrossReferenceIndex and resolves to a document whose
\* sourceRepo differs from the sourceRepo of the document holding the link, is
\* replaced by [text](../{section}/{filename}) of the resolved document, followed
\* by '#' and the anchor exactly when the target has a non-empty anchor (the text
\* between its first '#' and a second one); the link text is kept.
C5_CrossRepoRewrite ==
  Linked =>
    \A pos \in LinkAt :
      CrossRepoLink(pos) =>
        LET to == Resolved(BasenameOfTarget(TargetOf(pos)))
            anchor == AnchorPart(TargetOf(pos))
        IN LineAfter(pos) =
             Link(TextOf(pos),
                  <<".", ".", "/", to.section, "/">> \o to.doc.filename
                  \o (IF anchor = <<>> THEN <<>> ELSE <<"#">> \o anchor))

\* a link with an anchor and a link without one were rewritten across repositories
C5_Witness ==
  /\ Linked
  /\ \E pos \in LinkAt :
       CrossRepoLink(pos) /\ AnchorPart(TargetOf(pos)) # <<>> /\ LineAfter(pos) # LineBefore(pos)
  /\ \E pos \in LinkAt :
       CrossRepoLink(pos) /\ AnchorPart(TargetOf(pos)) = <<>> /\ LineAfter(pos) # LineBefore(pos)

\* C6: linkCrossReferences leaves every link whose target begins with http:// or
\* https:// and every link whose target begins with '#' unchanged, whatever the
\* CrossReferenceIndex holds.
C6_ExternalAndAnchorUnchanged ==
  Linked =>
    \A pos \in LinkAt :
      (IsHttp(TargetOf(pos)) \/ IsAnchor(TargetOf(pos))) => LineAfter(pos) = LineBefore(pos)

\* an https link whose last path segment names a document of another repository,
\* and an anchor-only link, went through linkCrossReferences
C6_Witness ==
  /\ Linked
  /\ \E pos \in LinkAt :
       /\ IsHttp(TargetOf(pos))
       /\ Found(BasenameOfTarget(TargetOf(pos)))
       /\ Resolved(BasenameOfTarget(TargetOf(pos))).doc.sourceRepo # DocBeforeLink(pos).sourceRepo
  /\ \E pos \in LinkAt : IsAnchor(TargetOf(pos))

\* C7: linkCrossReferences never fails, and it leaves a relative link unchanged
\* when the basename of its target is not in the CrossReferenceIndex or when the
\* document it resolves to has the sourceRepo of the document holding the link.
C7_UnresolvedAndSameRepoUnchanged ==
  /\ [][pc = "link" => pc' \in {"link", "index"}]_vars
  /\ [](Linked =>
         /\ Len(linked) = Len(unlinked)
         /\ \A n \in 1..Len(linked) :
              /\ linked[n].section = unlinked[n].section
              /\ Len(linked[n].documents) = Len(unlinked[n].documents)
         /\ \A pos \in LinkAt :
              (IsRelative(TargetOf(pos)) /\ ~CrossRepoLink(pos))
                => LineAfter(pos) = LineBefore(pos))

\* a relative link that resolves to nothing and a relative link that resolves to a
\* document of the repository of its own document went through linkCrossReferences
C7_Witness ==
  /\ Linked
  /\ \E pos \in LinkAt :
       IsRelative(TargetOf(pos)) /\ ~Found(BasenameOfTarget(TargetOf(pos)))
  /\ \E pos \in LinkAt :
       /\ IsRelative(TargetOf(pos))
       /\ Found(BasenameOfTarget(TargetOf(pos)))
       /\ DocBeforeLink(pos).sourceRepo # Undefined
       /\ Resolved(BasenameOfTarget(TargetOf(pos))).doc.sourceRepo = DocBeforeLink(pos).sourceRepo

(***************************************************************************)
(* Where a relative link leads: in the repository it was written in, and   *)
(* in the aggregated tree, where a document lies at {section}/{filename}.  *)
(***************************************************************************)
\* the path reached from the directory dir (a sequence of segments) by the
\* segments segs of a relative path
RECURSIVE Walk(_, _)
Walk(dir, segs) ==
  IF segs = <<>> THEN dir
  ELSE IF Head(segs) = <<".">> THEN Walk(dir, Tail(segs))
  ELSE IF Head(segs) = <<".", ".">> /\ dir # <<>> /\ dir[Len(dir)] # <<".", ".">>
       THEN Walk(SubSeq(dir, 1, Len(dir) - 1), Tail(segs))
       ELSE Walk(Append(dir, Head(segs)), Tail(segs))

LeadsTo(dir, url) == Walk(dir, Split(PathPart(url), "/"))

DirOf(path) == LET segs == Split(path, "/") IN SubSeq(segs, 1, Len(segs) - 1)

\* the documents the run extracted, with the repository they came from
ExtractedDocs ==
  {[repo |-> allDocs[n].repo, doc |-> allDocs[n].docs[m].documents[k]] :
     <<n, m, k>> \in {t \in (1..Len(allDocs)) \X (1..3) \X (1..4) :
                        /\ t[2] <= Len(allDocs[t[1]].docs)
                        /\ t[3] <= Len(allDocs[t[1]].docs[t[2]].documents)}}

\* the basename of the link is the file name of a document extracted in this run
NamesExtracted(pos) ==
  \E e \in ExtractedDocs : e.doc.filename = BasenameOfTarget(TargetOf(pos))

\* in its own repository the link led to a document this run extracted
ValidAtSource(pos) ==
  /\ DocBeforeLink(pos).absolutePath # Undefined
  /\ \E e \in ExtractedDocs :
       /\ e.repo = DocBeforeLink(pos).sourceRepo
       /\ Split(e.doc.absolutePath, "/")
            = LeadsTo(DirOf(DocBeforeLink(pos).absolutePath), TargetOf(pos))

\* in the aggregated tree the link leads to a document of the final collection
ValidInOutput(pos) ==
  LET to == LeadsTo(<<(<<linked[pos[1]].section>>)>>, LineAfter(pos).s[2])
  IN /\ Len(to) = 2
     /\ \E n \in 1..Len(linked) :
          /\ <<linked[n].section>> = to[1]
          /\ \E m \in 1..Len(linked[n].documents) : linked[n].documents[m].filename = to[2]

\* C8 (refuted, already for the links that were valid where they were written):
\* after merge and link, every relative link that named, by basename, a document
\* extracted in this run, and led to it in its own repository, points to a
\* (section, filename) that exists in the final collection, also when the target
\* document was renamed by the prefixed strategy.
C8_LinksRemainValid ==
  Linked =>
    \A pos \in LinkAt :
      (IsRelative(TargetOf(pos)) /\ NamesExtracted(pos) /\ ValidAtSource(pos))
        => ValidInOutput(pos)

(***************************************************************************)
(* The index text.                                                         *)
(***************************************************************************)
Indexed9 == pc \in {"write", "writeDocs", "done"} \/ (pc = "failed" /\ error = "write")

\* the numbers the summary prints after a label
Printed(name) ==
  {LineText(index[n])[Len(LineText(index[n]))] :
     n \in {k \in 1..Len(index) :
              /\ index[k].k = "text"
              /\ Len(LineText(index[k])) = Len(SummaryLabel(name)) + 1
              /\ SubSeq(LineText(index[k]), 1, Len(SummaryLabel(name))) = SummaryLabel(name)}}

\* the places <<section, document>> of the final collection
DocPlaces ==
  {t \in (1..Len(linked)) \X (1..8) : t[2] <= Len(linked[t[1]].documents)}

IsHeading3(ln) == ln.k = "h3"

\* the '###' headings of the index, top to bottom
Headings == SelectSeq(index, IsHeading3)

\* C9: the document count the index prints is the sum of the lengths of the
\* per-section lists of the collection, the section count it prints is the number
\* of keys of the collection, and the '###' headings of the index are the keys
\* (capitalised), each once, in lexicographic order.
C9_IndexComplete ==
  Indexed9 =>
    /\ Printed("Documents") = {ToString(Cardinality(DocPlaces))}
    /\ Printed("Sections") = {ToString(Len(linked))}
    /\ Len(Headings) = Len(linked)
    /\ \A n \in 1..Len(linked) :
         \E k \in 1..Len(Headings) : Headings[k] = H3(<<SectionName(linked[n].section)>>)
    /\ \A k \in 1..Len(Headings) :
         \E n \in 1..Len(linked) : Headings[k] = H3(<<SectionName(linked[n].section)>>)
    /\ \A j, k \in 1..Len(Headings) :
         j < k => \E a, b \in 1..Len(SectionOrder) :
                    /\ a < b
                    /\ Headings[j] = H3(<<SectionName(SectionOrder[a])>>)
                    /\ Headings[k] = H3(<<SectionName(SectionOrder[b])>>)

\* an index of a collection whose keys were inserted out of order and whose
\* sections hold more documents than there are sections
C9_Witness ==
  /\ Indexed9
  /\ Len(linked) >= 3
  /\ Cardinality(DocPlaces) > Len(linked)
  /\ \E n \in 1..(Len(linked) - 1) :
       RankIn(SectionOrder, linked[n + 1].section) < RankIn(SectionOrder, linked[n].section)

(***************************************************************************)
(* The extraction loop of the command.                                     *)
(***************************************************************************)
Extracting == pc \in {"extract", "merge", "link", "index", "write", "writeDocs", "done"}
                \/ (pc = "failed" /\ error = "write")

PastExtraction == Extracting /\ pc # "extract"

\* the local root of the repository does not exist
IsMissing(repo) == fs[RepoNameOf(repo)] = Missing

IsPresent(repo) == ~IsMissing(repo)

\* the repositories of the extracted documents, in the order of allDocs
ExtractedRepos == [n \in 1..Len(allDocs) |-> allDocs[n].repo]

\* the paths of the files the run has written so far
WrittenPaths == {f.path : f \in out.files}

\* C10: when extractDocs fails for a repository because its local root does not
\* exist, the run records a warning for it and still tries every later
\* repository; merge, link, index and write then work on the documents of the
\* repositories that succeeded, in configured order, and a finished run has
\* written the index and every document of the collection.
C10_ContinueOnError ==
  /\ [][pc = "extract" => pc' \in {"extract", "merge"}]_vars
  /\ [](Extracting =>
         /\ tried <= Len(cfg.repos)
         /\ warnings = SelectSeq(SubSeq(cfg.repos, 1, tried), IsMissing)
         /\ ExtractedRepos = SelectSeq(SubSeq(cfg.repos, 1, tried), IsPresent))
  /\ [](PastExtraction => tried = Len(cfg.repos))
  /\ [](Merged =>
         \A e \in ExtractedDocs :
           \E n \in 1..Len(MergeResult) :
             /\ MergeResult[n].section = e.doc.section
             /\ \E m \in 1..Len(MergeResult[n].documents) :
                  LET doc == MergeResult[n].documents[m]
                  IN \/ doc.sourceRepo = e.repo /\ doc.content = e.doc.content
                     \/ \E k \in 1..Len(doc.sourceRepos) : doc.sourceRepos[k] = e.repo)
  /\ [](pc = "done" =>
         /\ IndexPath \in WrittenPaths
         /\ \A t \in DocPlaces :
              DocPath(linked[t[1]].section, linked[t[1]].documents[t[2]]) \in WrittenPaths)

\* a finished run whose first repository had no local root and whose second
\* repository delivered the documents that were written
C10_Witness ==
  /\ pc = "done"
  /\ Len(cfg.repos) = 2
  /\ warnings = <<cfg.repos[1]>>
  /\ ExtractedRepos = <<cfg.repos[2]>>
  /\ Cardinality(DocPlaces) > 0
  /\ \A t \in DocPlaces : linked[t[1]].documents[t[2]].sourceRepo = cfg.repos[2]

(***************************************************************************)
(* Acquisition and the fatal errors of the command.                        *)
(***************************************************************************)
\* the run has ended in the catch block of the command after cloneRepos threw
CloneAborted == pc = "failed" /\ error = "clone"

\* the files of the output directory that were there before the run
StaleFiles == StaleDir.files

\* the files the run has written
WrittenFiles == out.files \ StaleFiles

\* the repository cloneRepos is at cannot be taken: its directory is missing and
\* its identifier is not of the form org/repo
Unclonable ==
  /\ pc = "clone"
  /\ fs[RepoNameOf(cfg.repos[cloned + 1])] = Missing
  /\ ~ValidFormat(cfg.repos[cloned + 1])

Aborted == pc = "failed"

\* C12 (as claimed; the code violates it): in every run that ends with a fatal
\* error, no INDEX.md and no document file has been written to the output
\* directory at the time of the abort.
C12_NoOutputOnAbort ==
  Aborted => WrittenFiles = {}

(***************************************************************************)
(* The section list of a run.                                              *)
(***************************************************************************)
\* the files of a tree that lie under a path searched for the section
FilesOf(t, section) ==
  {n \in 1..Len(TreeOf(t)) :
     \E p \in 1..Len(sectionPaths(section)) :
       Under(TreeOf(t)[n].dir, sectionPaths(section)[p])}

\* the sections the code knows paths for
KnownSections == {SectionOrder[n] : n \in 1..Len(SectionOrder)}

\* C13 (as claimed; the code violates it): when the run passes an empty section
\* list, the documents of every known section that are present in a repository
\* are extracted, and their section appears in the MergedCollection.
C13_EmptyMeansAll ==
  (PastExtraction /\ cfg.sections = <<>>) =>
    \A n \in 1..Len(allDocs) :
      \A section \in KnownSections :
        LET t == fs[allDocs[n].repoName]
        IN FilesOf(t, section) # {} =>
             /\ \E e \in 1..Len(allDocs[n].docs) :
                  /\ allDocs[n].docs[e].section = section
                  /\ Len(allDocs[n].docs[e].documents) >= Cardinality(FilesOf(t, section))
             /\ Merged => \E m \in 1..Len(MergeResult) : MergeResult[m].section = section

(***************************************************************************)
(* The conflict policy.                                                    *)
(***************************************************************************)
\* the documents of a section that carry a tag
TaggedIn(coll, section, tag) ==
  IF Has(coll, section)
  THEN LET Is(d) == d.conflictResolution = tag IN SelectSeq(Get(coll, section), Is)
  ELSE <<>>

\* the names the prefixed strategy gives to the contributions
PrefixedNames(c, F) ==
  {Sanitize(c[i].repoName) \o <<"-">> \o F : i \in 1..Len(c)}

\* the conflicts of the section are resolved by the policy of the section
SectionPolicy(coll, section) ==
  /\ IF section \in PrefixSections
     THEN TaggedIn(coll, section, "merged") = <<>>
     ELSE TaggedIn(coll, section, "prefixed") = <<>>
  /\ \A F \in Filenames :
       LET c == Contributions(section, F)
           InGroup(d) == d.filename \in PrefixedNames(c, F)
       IN Len(c) >= 2 =>
            IF section \in PrefixSections
            THEN Len(SelectSeq(TaggedIn(coll, section, "prefixed"), InGroup)) = Len(c)
            ELSE /\ Len(NamedIn(coll, section, F)) = 1
                 /\ NamedIn(coll, section, F)[1].conflictResolution = "merged"

\* the second merge, under another value of the option, has returned
MergedTwice == pc = "link" /\ rerun

HandledAs(option, coll, section, c, F) ==
  CASE option = "prefix" ->
         /\ NamedIn(coll, section, F) = <<>>
         /\ \A i \in 1..Len(c) :
              \E d \in 1..Len(Get(coll, section)) :
                /\ Get(coll, section)[d].filename = Sanitize(c[i].repoName) \o <<"-">> \o F
                /\ Get(coll, section)[d].content = c[i].doc.content
    [] option = "merge" ->
         /\ Len(NamedIn(coll, section, F)) = 1
         /\ NamedIn(coll, section, F)[1].sourceRepos = [i \in 1..Len(c) |-> c[i].repo]
    [] option = "skip" ->
         /\ Len(NamedIn(coll, section, F)) = 1
         /\ NamedIn(coll, section, F)[1].content = c[1].doc.content
         /\ NamedIn(coll, section, F)[1].sourceRepo = c[1].repo
    [] option = "error" -> FALSE

\* C15 (as documented; the code violates it): the configured
\* aggregate.conflictResolution selects how a filename conflict is handled:
\* 'prefix' prefixes each conflicting name with the repository name, 'merge'
\* combines the contents into one document, 'skip' keeps the first occurrence
\* and drops the later ones, 'error' makes the aggregation fail on the conflict.
C15_OptionSelectsStrategy ==
  pc = "link" =>
    \A n \in 1..Len(ModelSections) : \A F \in Filenames :
      LET section == ModelSections[n]
          c == Contributions(section, F)
      IN Len(c) >= 2 => HandledAs(cfg.conflictResolution, merged, section, c, F)

(***************************************************************************)
(* Who assigns the content of a document.                                  *)
(***************************************************************************)
\* the documents of the collection the later stages work on
Collection == IF Linked THEN linked ELSE merged

\* the document was copied from an extracted one, with or without a prefix
IsCopy(doc) == doc.conflictResolution \in {"none", "prefixed"}

\* the content the document was extracted with
ExtractedWith(doc, content) ==
  \E e \in ExtractedDocs :
    /\ e.repo = doc.sourceRepo
    /\ e.doc.absolutePath = doc.absolutePath
    /\ e.doc.section = doc.section
    /\ e.doc.content = content

AfterLink == pc \in {"index", "write", "writeDocs", "done", "failed"}

\* C16: extraction only adds documents, mergeDocumentation leaves the extracted
\* documents as they are and gives every pass-through and every prefixed
\* document the content it was extracted with, linkCrossReferences assigns the
\* contents of the collection in its one step of the run, and no step after it
\* (index, write) assigns a content again.
C16_OnlyLinkerMutatesContent ==
  /\ [][allDocs' # allDocs =>
          pc = "extract" /\ SubSeq(allDocs', 1, Len(allDocs)) = allDocs]_vars
  /\ [](Merged =>
         \A n \in 1..Len(MergeResult) : \A m \in 1..Len(MergeResult[n].documents) :
           LET doc == MergeResult[n].documents[m]
           IN IsCopy(doc) => ExtractedWith(doc, doc.content))
  /\ [][merged' # merged => pc \in {"merge", "link"} /\ pc' \in {"link", "index"}]_vars
  /\ [][linked' # linked => pc = "link" /\ pc' = "index"]_vars
  /\ [][AfterLink => linked' = linked /\ merged' = merged /\ allDocs' = allDocs]_vars

\* a finished run in which a pass-through document went through merge with the
\* content it was extracted with and the linker then gave it another content
C16_Witness ==
  /\ pc = "done"
  /\ \E n \in 1..Len(linked) : \E m \in 1..Len(linked[n].documents) :
       /\ linked[n].documents[m].conflictResolution = "none"
       /\ ExtractedWith(unlinked[n].documents[m], unlinked[n].documents[m].content)
       /\ linked[n].documents[m].content # unlinked[n].documents[m].content

(***************************************************************************)
(* Section membership.                                                     *)
(***************************************************************************)
\* the repositories that contributed the name F under the section, in input order
ContributorsOf(section, F) ==
  [i \in 1..Len(Contributions(section, F)) |-> Contributions(section, F)[i].repo]

\* the document of the list of `section` stems from documents extracted under it
StemsFrom(doc, section) ==
  IF IsCopy(doc)
  THEN \E n \in 1..Len(allDocs) : \E e \in 1..Len(allDocs[n].docs) :
         /\ allDocs[n].repo = doc.sourceRepo
         /\ allDocs[n].docs[e].section = section
         /\ \E k \in 1..Len(allDocs[n].docs[e].documents) :
              LET from == allDocs[n].docs[e].documents[k]
              IN /\ from.section = section
                 /\ from.absolutePath = doc.absolutePath
                 /\ from.relativePath = doc.relativePath
  ELSE /\ Len(Contributions(section, doc.filename)) >= 2
       /\ doc.sourceRepos = ContributorsOf(section, doc.filename)

FiledRight(coll) ==
  \A n \in 1..Len(coll) : \A m \in 1..Len(coll[n].documents) :
    /\ coll[n].documents[m].section = coll[n].section
    /\ StemsFrom(coll[n].documents[m], coll[n].section)

\* C17: after merge and after link, every document in the list of section s of
\* the MergedCollection has its section field equal to s and stems only from
\* documents extracted under s; link and index leave every document in the
\* list merge put it in.
C17_SectionMembershipStable ==
  /\ Merged => FiledRight(MergeResult)
  /\ Linked =>
       /\ FiledRight(linked)
       /\ Len(linked) = Len(unlinked)
       /\ \A n \in 1..Len(linked) :
            /\ linked[n].section = unlinked[n].section
            /\ Len(linked[n].documents) = Len(unlinked[n].documents)
            /\ \A m \in 1..Len(linked[n].documents) :
                 /\ linked[n].documents[m].filename = unlinked[n].documents[m].filename
                 /\ linked[n].documents[m].section = unlinked[n].documents[m].section

\* the index was generated for a collection of several sections that holds a
\* merged, a prefixed and a pass-through document
C17_Witness ==
  /\ pc = "write"
  /\ Len(linked) >= 2
  /\ \E n \in 1..Len(linked) : TaggedIn(linked, linked[n].section, "merged") # <<>>
  /\ \E n \in 1..Len(linked) : TaggedIn(linked, linked[n].section, "prefixed") # <<>>
  /\ \E n \in 1..Len(linked) : TaggedIn(linked, linked[n].section, "none") # <<>>

(***************************************************************************)
(* The order of the stages of a run.                                       *)
(***************************************************************************)
BeforeMerge == pc \in {"load", "clean", "clone", "extract", "merge"}

\* C18: merge starts only when the extraction of every repository has been
\* attempted, link only when merge has returned, index generation only when
\* link has returned, the write step only when the index is generated; a stage
\* finds the outputs of the later stages still empty and leaves the outputs of
\* the other stages alone.
C18_StageOrdering ==
  /\ [][pc' # pc =>
          /\ pc' = "merge" => pc \in {"clean", "clone", "extract"} /\ tried' = Len(cfg.repos)
          /\ pc' = "link" => pc = "merge"
          /\ pc' = "index" => pc = "link"
          /\ pc' = "write" => pc = "index"
          /\ pc' = "writeDocs" => pc \in {"write", "writeDocs"}
          /\ pc' = "done" => pc \in {"write", "writeDocs"}]_vars
  /\ [](BeforeMerge => merged = <<>> /\ linked = <<>> /\ index = <<>> /\ WrittenFiles = {})
  /\ [](pc = "link" => linked = <<>> /\ index = <<>> /\ WrittenFiles = {})
  /\ [](pc = "index" => index = <<>> /\ WrittenFiles = {})
  /\ [][pc = "extract" => UNCHANGED <<merged, linked, index, out>>]_vars
  /\ [][pc = "merge" => UNCHANGED <<allDocs, linked, index, out>>]_vars
  /\ [][pc = "link" => UNCHANGED <<allDocs, index, out>>]_vars
  /\ [][pc = "index" => UNCHANGED <<allDocs, merged, linked, out>>]_vars
  /\ [][(pc = "write" \/ pc = "writeDocs") => UNCHANGED <<allDocs, merged, linked, index>>]_vars

\* a run over two repositories has gone through every stage and has written
\* the index and at least two documents
C18_Witness ==
  /\ pc = "done"
  /\ Len(allDocs) = 2
  /\ written >= 2
  /\ index # <<>>
  /\ Cardinality(WrittenFiles) >= 3

(***************************************************************************)
(* The files of a finished run.                                            *)
(***************************************************************************)
\* the file of the output directory at the path holds the content
Holds(path, content) == [path |-> path, content |-> content] \in out.files

\* the document files the run has written
DocFiles == {f \in WrittenFiles : f.path # IndexPath}

\* C19 (as claimed; the code violates it): after a successful run, for every
\* document d of the final collection the file {section}/{filename} of the
\* output directory holds the link-rewritten content of d, the number of
\* document files written equals the document count the index reports, and
\* INDEX.md holds the index text.
C19_OneFilePerDocument ==
  pc = "done" =>
    /\ Holds(IndexPath, index)
    /\ \A t \in DocPlaces :
         LET d == linked[t[1]].documents[t[2]]
         IN Holds(DocPath(linked[t[1]].section, d), d.content)
    /\ Printed("Documents") = {ToString(Cardinality(DocFiles))}

(***************************************************************************)
(* generateIndex and the collection it renders.                            *)
(***************************************************************************)
\* two documents of one repository stand in a list of the collection against
\* the order of their file names
OutOfOrder(coll) ==
  \E n \in 1..Len(coll) : \E i, j \in 1..Len(coll[n].documents) :
    /\ i < j
    /\ coll[n].documents[i].sourceRepo # Undefined
    /\ coll[n].documents[i].sourceRepo = coll[n].documents[j].sourceRepo
    /\ NameBefore(coll[n].documents[j].filename, coll[n].documents[i].filename)

\* C20: generateIndex does not mutate the MergedCollection: the sections, the
\* order of the documents of every list and every field of every document are
\* after the call what they were before it, although the index lists the
\* documents of a repository group sorted by filename.
C20_IndexDoesNotMutate ==
  /\ [][pc = "index" => linked' = linked /\ merged' = merged /\ unlinked' = unlinked]_vars
  /\ [](pc = "write" => linked = linkCrossReferences(unlinked) /\ merged = linked)

\* the index was generated for a collection in which a repository has two
\* documents of a section in another order than that of their file names
C20_Witness ==
  /\ pc = "write"
  /\ index # <<>>
  /\ OutOfOrder(linked)

\* the sections of a collection, in key order
SectionsOf(coll) == [n \in 1..Len(coll) |-> coll[n].section]

\* the file names of the n-th section of a collection, in list order
NamesAt(coll, n) == [m \in 1..Len(coll[n].documents) |-> coll[n].documents[m].filename]

\* the contents of the n-th section of a collection, in list order
ContentsAt(coll, n) == [m \in 1..Len(coll[n].documents) |-> coll[n].documents[m].content]

RootOf(n) == RepoPath(cfg.clone, allDocs[n].repoName)

\* the absolute paths of the documents recorded for the n-th repository
PathsOf(n) == {e.doc.absolutePath : e \in {x \in ExtractedDocs : x.repo = allDocs[n].repo}}

\* C22 (as claimed; refuted): the documents recorded for a repository identifier
\* come only from that repository's own local tree: for two distinct identifiers
\* of one run the extractions read distinct local root paths, and no file is
\* recorded for both of them.
C22_ExtractionIsolated ==
  \A n, m \in 1..Len(allDocs) :
    allDocs[n].repo # allDocs[m].repo =>
      /\ RootOf(n) # RootOf(m)
      /\ PathsOf(n) \cap PathsOf(m) = {}

\* the document carries a mark of conflict resolution
IsResolved(doc) == doc.conflictResolution # "none" \/ doc.sourceRepos # <<>>

\* the documents of the section in the collection, as a set
DocsIn(coll, section) ==
  IF Has(coll, section)
  THEN {Get(coll, section)[m] : m \in 1..Len(Get(coll, section))}
  ELSE {}

\* the only contribution to a name passed through mergeDocumentation untouched
PassedThrough(c, section, F) ==
  \E d \in DocsIn(MergeResult, section) :
    /\ d.filename = F
    /\ d.content = c.doc.content
    /\ d.section = c.doc.section
    /\ d.metadata = c.doc.metadata
    /\ d.relativePath = c.doc.relativePath
    /\ d.absolutePath = c.doc.absolutePath
    /\ d.sourceRepo = c.repo
    /\ d.sourceRepoName = c.repoName
    /\ d.conflictResolution = "none"
    /\ d.sourceRepos = <<>>

\* C23: a document whose file name occurs once in its section after flattening
\* appears in the merged section with file name, content, section and metadata
\* unchanged, tagged with its contributing repository, with neither
\* conflictResolution nor sourceRepos; and every document of the collection that
\* carries conflictResolution or sourceRepos comes from a file name group of
\* more than one document.
C23_PassThrough ==
  Merged =>
    /\ \A section \in KnownSections : \A F \in Filenames :
         LET c == Contributions(section, F)
         IN Len(c) = 1 => PassedThrough(c[1], section, F)
    /\ \A n \in 1..Len(MergeResult) : \A m \in 1..Len(MergeResult[n].documents) :
         LET d == MergeResult[n].documents[m]
         IN IsResolved(d) =>
              \E F \in Filenames :
                LET c == Contributions(MergeResult[n].section, F)
                IN /\ Len(c) > 1
                   /\ \/ d.filename = F /\ d.conflictResolution = "merged"
                      \/ /\ d.filename \in PrefixedNames(c, F)
                         /\ d.conflictResolution = "prefixed"

\* one section holds a document that passed through next to the documents of a
\* conflict
C23_Witness ==
  /\ pc = "link"
  /\ \E n \in 1..Len(merged) :
       /\ \E m \in 1..Len(merged[n].documents) : IsResolved(merged[n].documents[m])
       /\ \E F \in Filenames :
            /\ Len(Contributions(merged[n].section, F)) = 1
            /\ PassedThrough(Contributions(merged[n].section, F)[1], merged[n].section, F)

(***************************************************************************)
(* The order of the index.                                                 *)
(***************************************************************************)
\* the k-th smallest member of a set of positions
Nth(S, k) == CHOOSE p \in S : Cardinality({q \in S : q <= p}) = k

\* the lines the index prints under the heading of the section, up to the next
\* heading
PartOf(section) ==
  LET start == CHOOSE k \in 1..Len(index) : index[k] = H3(<<SectionName(section)>>)
      stop == CHOOSE k \in (start + 1)..Len(index) :
                /\ index[k].k \in {"h2", "h3"}
                /\ \A j \in (start + 1)..(k - 1) : index[j].k \notin {"h2", "h3"}
  IN SubSeq(index, start + 1, stop - 1)

\* '**{repoName}**:'
IsGroupLine(ln) ==
  /\ ln.k = "text"
  /\ Len(LineText(ln)) >= 5
  /\ SubSeq(LineText(ln), 1, 2) = <<"*", "*">>

GroupName(ln) == SubSeq(LineText(ln), 3, Len(LineText(ln)) - 3)

\* '- [{title}]({section}/{filename})'
IsEntryLine(ln) ==
  /\ ln.k = "text"
  /\ Len(LineText(ln)) >= 3
  /\ SubSeq(LineText(ln), 1, 3) = <<"-", " ", "[">>

\* the file name an entry line links to
EntryFile(ln) ==
  LET t == LineText(ln)
      slash == CHOOSE p \in 1..Len(t) : t[p] = "/" /\ \A q \in (p + 1)..Len(t) : t[q] # "/"
  IN SubSeq(t, slash + 1, Len(t) - 1)

\* the names of the repository groups of a part, top to bottom
GroupNames(part) ==
  LET heads == SelectSeq(part, IsGroupLine)
  IN [n \in 1..Len(heads) |-> GroupName(heads[n])]

\* the file names listed in the k-th repository group of a part, top to bottom
GroupFiles(part, k) ==
  LET heads == {p \in 1..Len(part) : IsGroupLine(part[p])}
      from == Nth(heads, k)
      to == IF k < Cardinality(heads) THEN Nth(heads, k + 1) ELSE Len(part) + 1
      entries == SelectSeq(SubSeq(part, from + 1, to - 1), IsEntryLine)
  IN [n \in 1..Len(entries) |-> EntryFile(entries[n])]

\* the values of a sequence, each once, in order of first appearance
FirstSeen(seq) ==
  LET firsts == {i \in 1..Len(seq) : \A j \in 1..(i - 1) : seq[j] # seq[i]}
  IN [n \in 1..Cardinality(firsts) |-> seq[Nth(firsts, n)]]

\* the repositories of the documents of a section, in order of first appearance
\* in their sourceRepos / sourceRepo values
AppearanceOrder(coll, section) ==
  FirstSeen(Flatten([m \in 1..Len(Get(coll, section)) |-> ReposOf(Get(coll, section)[m])]))

IsName(key) == ~IsArrayIndex(key)

\* the numbers among the repositories in ascending order, then the names in
\* order of first appearance
NumbersFirst(repos) ==
  LET numbers == SelectSeq(repos, IsArrayIndex)
      Smaller(n) == Cardinality({m \in 1..Len(numbers) :
                       RankIn(ArrayIndices, numbers[m][1]) < RankIn(ArrayIndices, numbers[n][1])})
  IN [n \in 1..Len(numbers) |->
        numbers[CHOOSE m \in 1..Len(numbers) : Smaller(m) = n - 1]]
     \o SelectSeq(repos, IsName)

\* the file names of the documents of the section, each once for every time the
\* document names the repository
FilesFrom(coll, section, repo) ==
  LET docs == Get(coll, section)
      Is(r) == r = repo
  IN Flatten([m \in 1..Len(docs) |->
       [n \in 1..Len(SelectSeq(ReposOf(docs[m]), Is)) |-> docs[m].filename]])

\* the sequences hold the same values the same number of times
SameBag(a, b) ==
  /\ Len(a) = Len(b)
  /\ \A x \in {a[n] : n \in 1..Len(a)} \cup {b[n] : n \in 1..Len(b)} :
       Cardinality({n \in 1..Len(a) : a[n] = x}) = Cardinality({n \in 1..Len(b) : b[n] = x})

Ascending(files) ==
  \A i, j \in 1..Len(files) : i < j => ~NameBefore(files[j], files[i])

\* the sections are visited in lexicographic order
SectionsAscending ==
  /\ Len(Headings) = Len(linked)
  /\ \A n \in 1..Len(linked) : \E k \in 1..Len(Headings) :
       Headings[k] = H3(<<SectionName(linked[n].section)>>)
  /\ \A i, j \in 1..Len(linked) :
       SectionBefore(linked[i].section, linked[j].section) =>
         \E a, b \in 1..Len(Headings) :
           /\ a < b
           /\ Headings[a] = H3(<<SectionName(linked[i].section)>>)
           /\ Headings[b] = H3(<<SectionName(linked[j].section)>>)

\* the part of the section lists the groups `groups`, each with its documents
\* sorted by file name
ListsGroups(section, groups) ==
  /\ GroupNames(PartOf(section)) = [n \in 1..Len(groups) |-> RepoNameOf(groups[n])]
  /\ \A k \in 1..Len(groups) :
       /\ Ascending(GroupFiles(PartOf(section), k))
       /\ SameBag(GroupFiles(PartOf(section), k), FilesFrom(linked, section, groups[k]))

\* C24 (as claimed; refuted): generateIndex visits the sections in lexicographic
\* order; inside a section it lists the repository groups in the order in which
\* each repository first appears in the sourceRepos / sourceRepo values of the
\* section's documents, and inside each group the documents sorted by filename.
C24_GroupsInAppearanceOrder ==
  Indexed9 =>
    /\ SectionsAscending
    /\ \A n \in 1..Len(linked) :
         ListsGroups(linked[n].section, AppearanceOrder(linked, linked[n].section))

\* C24 (amended): generateIndex visits the sections in lexicographic order;
\* inside a section it lists the repository groups in the order of
\* Object.entries(byRepo): the repositories whose identifier is a number first,
\* in ascending order, then the others in the order in which each first appears
\* in the sourceRepos / sourceRepo values of the section's documents (not
\* sorted); inside each group the documents are sorted by filename.
C24_IndexOrder ==
  Indexed9 =>
    /\ SectionsAscending
    /\ \A n \in 1..Len(linked) :
         ListsGroups(linked[n].section,
                     NumbersFirst(AppearanceOrder(linked, linked[n].section)))

\* the sections were inserted out of order, a repository lists its documents out
\* of order, and a section lists a numbered repository before a named one that
\* appeared first
C24_Witness ==
  /\ Indexed9
  /\ \E i, j \in 1..Len(linked) : i < j /\ SectionBefore(linked[j].section, linked[i].section)
  /\ OutOfOrder(linked)
  /\ \E n \in 1..Len(linked) :
       LET seen == AppearanceOrder(linked, linked[n].section)
       IN /\ Len(seen) = 2
          /\ IsName(seen[1]) /\ IsArrayIndex(seen[2])
          /\ GroupNames(PartOf(linked[n].section)) = <<RepoNameOf(seen[2]), RepoNameOf(seen[1])>>

(***************************************************************************)
(* File names shared between sections.                                     *)
(***************************************************************************)
\* the places <<section, document>> of the documents named F in the collection
\* handed to linkCrossReferences
PlacesNamed(F) ==
  {t \in (1..Len(unlinked)) \X (1..8) :
     /\ t[2] <= Len(unlinked[t[1]].documents)
     /\ unlinked[t[1]].documents[t[2]].filename = F}

\* the last of them: sections in key order, documents in list order
LastNamed(F) ==
  CHOOSE t \in PlacesNamed(F) :
    \A u \in PlacesNamed(F) : u[1] < t[1] \/ (u[1] = t[1] /\ u[2] <= t[2])

\* documents of different sections share the name F
SharedName(F) == \E t, u \in PlacesNamed(F) : t[1] # u[1]

\* the directory the path of the target names
DirPart(url) ==
  LET path == PathPart(url)
      slashes == Places(path, "/")
  IN IF slashes = {} THEN <<>> ELSE SubSeq(path, 1, LastPlace(slashes))

\* the link at pos was resolved to the document at place t
ResolvedTo(pos, t) ==
  LET doc == unlinked[t[1]].documents[t[2]]
      anchor == AnchorPart(TargetOf(pos))
  IN IF doc.sourceRepo # DocBeforeLink(pos).sourceRepo
     THEN LineAfter(pos) =
            Link(TextOf(pos),
                 <<".", ".", "/", unlinked[t[1]].section, "/">> \o doc.filename
                 \o (IF anchor = <<>> THEN <<>> ELSE <<"#">> \o anchor))
     ELSE LineAfter(pos) = LineBefore(pos)

\* C25: when documents in different sections share the file name F,
\* linkCrossReferences resolves every relative link whose path basename is F,
\* whatever directory the path names, to the document indexed last (sections in
\* key order, documents in list order): the link is rewritten with that
\* document's section when its sourceRepo differs from the one of the document
\* holding the link, and left as it is otherwise.
C25_LastWriteWins ==
  (Linked /\ ~rerun) =>
    \A pos \in LinkAt :
      LET F == BasenameOfTarget(TargetOf(pos))
      IN (IsRelative(TargetOf(pos)) /\ SharedName(F)) => ResolvedTo(pos, LastNamed(F))

\* a link that names the directory of one section was rewritten to the section
\* of the document indexed last, and a link that names a document of another
\* repository by its directory was left alone because the document indexed last
\* is of the link's own repository
C25_Witness ==
  /\ Linked /\ ~rerun
  /\ \E pos \in LinkAt :
       LET F == BasenameOfTarget(TargetOf(pos))
       IN /\ IsRelative(TargetOf(pos)) /\ SharedName(F)
          /\ DirPart(TargetOf(pos)) = <<".", ".", "/", "api", "/">>
          /\ unlinked[LastNamed(F)[1]].section = "adr"
          /\ LineAfter(pos).s[2] = <<".", ".", "/", "adr", "/">> \o F \o <<"#", "top">>
  /\ \E pos \in LinkAt :
       LET F == BasenameOfTarget(TargetOf(pos))
       IN /\ IsRelative(TargetOf(pos)) /\ SharedName(F)
          /\ DirPart(TargetOf(pos)) = <<".", ".", "/", "api", "/">>
          /\ unlinked[LastNamed(F)[1]].section = "adr"
          /\ \E t \in PlacesNamed(F) :
               /\ unlinked[t[1]].section = "api"
               /\ unlinked[t[1]].documents[t[2]].sourceRepo # DocBeforeLink(pos).sourceRepo
          /\ LineAfter(pos) = LineBefore(pos)

(***************************************************************************)
(* The metadata of a document.                                             *)
(***************************************************************************)
\* the file was read and its document recorded
Read == pc = "merge" /\ Len(allDocs) = 1 /\ allDocs[1].docs # <<>>

\* the metadata recorded for the file
MetadataRead == allDocs[1].docs[1].documents[1].metadata

\* the lines of the leading frontmatter block of the content: the lines between a
\* first line '---' and the next line '---'
LeadingBlock(content) ==
  IF content # <<>> /\ content[1] = Rule /\ \E j \in 3..Len(content) : content[j] = Rule
  THEN SubSeq(content, 2,
              (CHOOSE j \in 3..Len(content) :
                 content[j] = Rule /\ \A m \in 3..(j - 1) : content[m] # Rule) - 1)
  ELSE <<>>

\* the lines of the block that give a value to the key
KeyLines(block, key) ==
  LET Gives(ln) == ln.k = "kv" /\ ln.s[1] = <<key>> IN SelectSeq(block, Gives)

\* the value the frontmatter gives to the key, null without the key
FrontmatterValue(content, key) ==
  IF KeyLines(LeadingBlock(content), key) = <<>> THEN Null
  ELSE Trim(KeyLines(LeadingBlock(content), key)[1].s[2])

\* the places of the heading '## {heading}' that a value follows: a line that is
\* not blank, after blank lines or none
PairsOf(content, heading) ==
  {j \in 1..Len(content) :
     /\ content[j] = H2(<<heading>>)
     /\ \E v \in (j + 1)..Len(content) : content[v] # Blank}

\* the value of the first heading-and-value pair
PairValue(content, heading) ==
  LET j == CHOOSE q \in PairsOf(content, heading) : \A r \in PairsOf(content, heading) : q <= r
      v == CHOOSE q \in (j + 1)..Len(content) :
             content[q] # Blank /\ \A r \in (j + 1)..(q - 1) : content[r] = Blank
  IN Trim(LineText(content[v]))

\* ADR-style value first, frontmatter value second, null otherwise
Precedence(content, heading, key) ==
  IF PairsOf(content, heading) # {} THEN PairValue(content, heading)
  ELSE FrontmatterValue(content, key)

\* C26 (as claimed; the code violates it): extractMetadata returns for every
\* content; status (and date) is the value of the ADR-style '## Status'
\* ('## Date') heading-and-value pair when there is one, otherwise the value of
\* the key in the leading frontmatter block when the block has the key, otherwise
\* null; author comes from the frontmatter only and is null without the key, tags
\* come from the frontmatter only and are the empty list without the key.
C26_MetadataPrecedence ==
  /\ (pc = "merge") => Read
  /\ Read =>
       /\ MetadataRead.status = Precedence(prev.content, "Status", "status")
       /\ MetadataRead.date = Precedence(prev.content, "Date", "date")
       /\ MetadataRead.author = FrontmatterValue(prev.content, "author")
       /\ KeyLines(LeadingBlock(prev.content), "tags") = <<>> => MetadataRead.tags = <<>>

(***************************************************************************)
(* linkCrossReferences applied to its own result.                          *)
(***************************************************************************)
\* linkCrossReferences was applied to the collection it had returned
Relinked == pc = "index" /\ rerun

\* the links the first application rewrote
Rewritten == {pos \in LinkAt : prev.linked[pos[1]].documents[pos[2]].content[pos[3]] # LineBefore(pos)}

\* C27: linkCrossReferences is idempotent: applied to its own result it changes
\* no document content; a link it rewrote to '../{section}/{filename}[#anchor]'
\* has the basename and the anchor it had before, so it resolves to the same
\* document and is rewritten to itself.
C27_LinkIdempotent ==
  Relinked =>
    /\ Len(linked) = Len(prev.linked)
    /\ \A n \in 1..Len(linked) :
         /\ linked[n].section = prev.linked[n].section
         /\ Len(linked[n].documents) = Len(prev.linked[n].documents)
         /\ \A m \in 1..Len(linked[n].documents) :
              linked[n].documents[m].content = prev.linked[n].documents[m].content
    /\ \A pos \in Rewritten :
         LET once == prev.linked[pos[1]].documents[pos[2]].content[pos[3]].s[2]
         IN /\ BasenameOfTarget(once) = BasenameOfTarget(TargetOf(pos))
            /\ AnchorPart(once) = AnchorPart(TargetOf(pos))

\* the first application rewrote a link with two '#' and a link without an
\* anchor, and the second application went over them
C27_Witness ==
  /\ Relinked
  /\ \E pos \in Rewritten :
       /\ Cardinality(Places(TargetOf(pos), "#")) = 2
       /\ AnchorPart(TargetOf(pos)) # <<>>
       /\ LineAfter(pos) # LineBefore(pos)
  /\ \E pos \in Rewritten : AnchorPart(TargetOf(pos)) = <<>> /\ LineAfter(pos) # LineBefore(pos)

(***************************************************************************)
(* Links from and to merged documents.                                     *)
(***************************************************************************)
IsMergedDoc(doc) == doc.conflictResolution = "merged"

\* the document the link at pos resolves to
TargetDoc(pos) == unlinked[LastNamed(BasenameOfTarget(TargetOf(pos)))[1]]
                    .documents[LastNamed(BasenameOfTarget(TargetOf(pos)))[2]]

TargetSection(pos) == unlinked[LastNamed(BasenameOfTarget(TargetOf(pos)))[1]].section

\* the relative link at pos resolves to a document
Resolvable(pos) ==
  IsRelative(TargetOf(pos)) /\ PlacesNamed(BasenameOfTarget(TargetOf(pos))) # {}

\* the link at pos now leads to '../{section}/{filename}[#anchor]' of its target
LeadsToTarget(pos) ==
  LineAfter(pos) =
    Link(TextOf(pos),
         <<".", ".", "/", TargetSection(pos), "/">> \o TargetDoc(pos).filename
         \o (IF AnchorPart(TargetOf(pos)) = <<>> THEN <<>>
             ELSE <<"#">> \o AnchorPart(TargetOf(pos))))

\* the repositories a merged document was made from
Contributors(doc) == {doc.sourceRepos[n] : n \in 1..Len(doc.sourceRepos)}

\* C28: a merged-strategy document has sourceRepos and no sourceRepo of its own;
\* linkCrossReferences rewrites every resolvable relative link between a merged
\* document and a non-merged document, in either direction, also when the
\* repository of the non-merged document is one of the merged document's
\* contributors, and leaves every link from one merged document to another
\* merged document unchanged.
C28_MergedDocumentLinks ==
  (Linked /\ ~rerun) =>
    /\ \A n \in 1..Len(unlinked) : \A m \in 1..Len(unlinked[n].documents) :
         LET d == unlinked[n].documents[m]
         IN IsMergedDoc(d) => d.sourceRepo = Undefined /\ Len(d.sourceRepos) >= 2
    /\ \A pos \in LinkAt :
         Resolvable(pos) =>
           /\ (IsMergedDoc(DocBeforeLink(pos)) /\ ~IsMergedDoc(TargetDoc(pos)))
                => LeadsToTarget(pos)
           /\ (~IsMergedDoc(DocBeforeLink(pos)) /\ IsMergedDoc(TargetDoc(pos)))
                => LeadsToTarget(pos)
           /\ (IsMergedDoc(DocBeforeLink(pos)) /\ IsMergedDoc(TargetDoc(pos)))
                => LineAfter(pos) = LineBefore(pos)

\* in one collection a merged document links to a document of one of its
\* contributors, a document of a contributor links to the merged document, both
\* links were rewritten, and a link of the merged document to a merged document
\* was left alone
C28_Witness ==
  /\ Linked /\ ~rerun
  /\ \E pos \in LinkAt :
       /\ Resolvable(pos)
       /\ IsMergedDoc(DocBeforeLink(pos)) /\ ~IsMergedDoc(TargetDoc(pos))
       /\ TargetDoc(pos).sourceRepo \in Contributors(DocBeforeLink(pos))
       /\ LineAfter(pos) # LineBefore(pos)
  /\ \E pos \in LinkAt :
       /\ Resolvable(pos)
       /\ ~IsMergedDoc(DocBeforeLink(pos)) /\ IsMergedDoc(TargetDoc(pos))
       /\ DocBeforeLink(pos).sourceRepo \in Contributors(TargetDoc(pos))
       /\ LineAfter(pos) # LineBefore(pos)
  /\ \E pos \in LinkAt :
       /\ Resolvable(pos)
       /\ IsMergedDoc(DocBeforeLink(pos)) /\ IsMergedDoc(TargetDoc(pos))
       /\ LineAfter(pos) = LineBefore(pos)

(***************************************************************************)
(* The repositories the index reports.                                     *)
(***************************************************************************)
\* the lines the index prints under '## Source Repositories', up to the next
\* heading, without the blank ones
SourceList ==
  LET start == CHOOSE k \in 1..Len(index) : index[k] = H2(<<"Source", " ", "Repositories">>)
      stop == CHOOSE k \in (start + 1)..Len(index) :
                /\ index[k].k = "h2"
                /\ \A j \in (start + 1)..(k - 1) : index[j].k # "h2"
  IN SelectSeq(SubSeq(index, start + 1, stop - 1), IsNotBlank)

\* the repositories whose extraction failed
Failed == {warnings[n] : n \in 1..Len(warnings)}

\* the repositories a document of the collection names
NamedBy(doc) == {ReposOf(doc)[n] : n \in 1..Len(ReposOf(doc))}

\* C29: the repository count and the repository list of the index are those of
\* the configured list: when extraction failed for k of the n configured
\* repositories, the index reports n repositories and lists all n in configured
\* order, and no document of the k failed repositories is in any section.
C29_IndexListsConfigured ==
  Indexed9 =>
    /\ Len(warnings) + Len(allDocs) = Len(cfg.repos)
    /\ Printed("Repositories") = {ToString(Len(cfg.repos))}
    /\ SourceList = [n \in 1..Len(cfg.repos) |-> Text(<<"-", " ">> \o cfg.repos[n])]
    /\ \A t \in DocPlaces : NamedBy(linked[t[1]].documents[t[2]]) \cap Failed = {}

\* the extraction of one of two configured repositories failed; the index
\* reports two repositories and lists both, with documents of the other one only
C29_Witness ==
  /\ Indexed9
  /\ Len(cfg.repos) = 2
  /\ Len(warnings) = 1 /\ Len(allDocs) = 1
  /\ Cardinality(DocPlaces) > 0
  /\ Printed("Repositories") = {"2"}
  /\ Len(SourceList) = 2
  /\ SourceList[1] = Text(<<"-", " ">> \o cfg.repos[1])
  /\ SourceList[2] = Text(<<"-", " ">> \o cfg.repos[2])

(***************************************************************************)
(* The output directory before the write step.                             *)
(***************************************************************************)
\* the run has not come to the write step
BeforeWrite ==
  pc \in {"load", "clean", "clone", "extract", "merge", "link", "index"}
    \/ (pc = "failed" /\ error \in {"config", "clone"})

\* the run is past the cleaning step and has not written anything
Acquiring ==
  pc \in {"clone", "extract", "merge", "link", "index", "write"} \/ CloneAborted

EmptyDir == [exists |-> TRUE, files |-> {}]

\* C30: with --clean and an existing output directory, the directory is emptied
\* before any repository is cloned or extracted, so a run that then aborts on an
\* acquisition failure has removed the previous output and written nothing;
\* without --clean no step before the write step changes the output directory.
C30_CleanBeforeAcquisition ==
  /\ [][(pc = "clean" /\ cfg.clean /\ out.exists) => out' = EmptyDir]_vars
  /\ [](pc = "clean" => cloned = 0 /\ tried = 0 /\ allDocs = <<>> /\ warnings = <<>>)
  /\ []((Acquiring /\ cfg.clean /\ out.exists) => out = EmptyDir)
  /\ [][(BeforeWrite /\ ~cfg.clean) => out' = out]_vars
  /\ []((BeforeWrite /\ ~cfg.clean) => out \in {NoDir, StaleDir})

\* a run with --clean that found previous output has aborted on a repository it
\* could not clone: the directory is empty
C30_Witness ==
  /\ CloneAborted
  /\ cfg.clean
  /\ out = EmptyDir

====
